---- MODULE Spec2Model ----
(***************************************************************************)
(* Energon dapp: the dashboard tab's tick guardrail, plasma counter and    *)
(* refreshRead (src/pages/dashboard.js), the observer page's state         *)
(* derivation and metadata fetch (src/pages/observer.js, three variants),  *)
(* the mint page's mintNow (src/pages/mint.js) and the server tick handler *)
(* (src/pages/api/tick.js); the error handling of the pages' async         *)
(* handlers, the poll's overlapping passes, two tabs sharing the tick      *)
(* lock, the dashboard across reloads and under fair timers.               *)
(*                                                                          *)
(* Time.  The tab reads the clock only in lockTickForAllTabs (Date.now() +  *)
(* 45 s) and isTickLocked (Date.now() < stored).  The model keeps the       *)
(* origin of time at the current instant: DateNow is 0 and Advance(d)       *)
(* subtracts the elapsed time from the stored lock timestamp (floored at 0, *)
(* every test of it being `Date.now() < until`) and runs the two 1 s        *)
(* countdown intervals d times.                                             *)
(*                                                                          *)
(* JavaScript null is NULL (-1) and NaN is NaN (-2): heights are uint256 and*)
(* never negative.                                                          *)
(*                                                                          *)
(* localStorage is taken to be available (the catch branches of readLS,     *)
(* writeLS, lockTickForAllTabs and isTickLocked are not taken).  A reload  *)
(* of the page is a step of the plasma, metadata, mint, tabs and reload    *)
(* specifications only.  A transaction of the tab is mined, if at all,     *)
(* when tx.wait() resolves.                                                *)
(***************************************************************************)
EXTENDS Integers, Sequences, FiniteSets, Bags, TLC

\* ------------------------------------------------------------------ bounds
MaxHeight == 1
MaxPasses == 1
FailCap == 4
MaxCubes == 2
MaxTokenId == 1
MaxBeat == 2
MaxWindows == 2
MaxFetches == 2

\* ------------------------------------------------------- program constants
MAINNET_CHAIN_ID == 14
PLASMA_MAX == 100
PLASMA_INTERVAL_MS == 600000
LOCK_SECONDS == 45
COOLDOWN_SECONDS == 20
BACKOFF_START == 15000
BACKOFF_CAP == 120000
NULL == -1
NaN == -2
DateNow == 0

\* the spans of time the model lets pass in one step (seconds)
ClockSteps == {LOCK_SECONDS}

\* the chains the wallet may be on: the expected one and another one
WalletChains == {MAINNET_CHAIN_ID, 1}

\* the connected account
Addr == "0xA1"

Heights == 0..MaxHeight

Min(a, b) == IF a < b THEN a ELSE b
Max(a, b) == IF a > b THEN a ELSE b

\* ------------------------------------------------------------ conversions
Digits == <<"0", "1", "2", "3", "4", "5", "6", "7", "8", "9">>

\* BigInt.prototype.toString / String(n) for the one-digit values of the model
toString(n) == Digits[n + 1]

\* Number(String(h)): the number a decimal string denotes, NaN for "-"
Number(s) ==
  IF \E i \in 1..Len(Digits) : Digits[i] = s
    THEN (CHOOSE i \in 1..Len(Digits) : Digits[i] = s) - 1
    ELSE NaN

\* String.prototype.trim
RECURSIVE trimStart(_)
trimStart(str) ==
  IF str # <<>> /\ Head(str) = " " THEN trimStart(Tail(str)) ELSE str

RECURSIVE trimEnd(_)
trimEnd(str) ==
  IF str # <<>> /\ str[Len(str)] = " "
    THEN trimEnd(SubSeq(str, 1, Len(str) - 1))
    ELSE str

trim(str) == trimEnd(trimStart(str))

\* /^\d+$/.test(str)
IsDigits(str) == str # <<>> /\ \A i \in 1..Len(str) : Number(str[i]) # NaN

\* BigInt(str) of a string of digits
RECURSIVE BigInt(_)
BigInt(str) ==
  IF str = <<>> THEN 0
  ELSE 10 * BigInt(SubSeq(str, 1, Len(str) - 1)) + Number(str[Len(str)])

\* String(n) of a non-negative integer: its decimal digits
RECURSIVE String(_)
String(n) ==
  IF n < 10 THEN <<Digits[n + 1]>>
  ELSE Append(String(n \div 10), Digits[(n % 10) + 1])

\* A JavaScript number that is not an integer of the model: finite or not
\* (NaN, Infinity), its sign, its whole part and whether it has a fraction.
Num(n) ==
  [finite |-> TRUE, neg |-> n < 0, whole |-> IF n < 0 THEN 0 - n ELSE n,
   part |-> FALSE]
NotFinite == [finite |-> FALSE, neg |-> FALSE, whole |-> 0, part |-> FALSE]

\* Number(str) of a string in decimal notation: optional white space, sign,
\* digits, at most one point (exponents, hex and "Infinity" spelled out are
\* not among the strings of the model)
NumberOfString(str) ==
  LET t == trim(str)
      signed == t # <<>> /\ Head(t) \in {"-", "+"}
      u == IF signed THEN Tail(t) ELSE t
      dots == {i \in 1..Len(u) : u[i] = "."}
      d == IF dots = {} THEN Len(u) + 1 ELSE CHOOSE i \in dots : TRUE
      w == SubSeq(u, 1, d - 1)
      f == SubSeq(u, d + 1, Len(u))
  IN IF t = <<>> THEN Num(0)
     ELSE IF \/ Cardinality(dots) > 1
             \/ (w = <<>> /\ f = <<>>)
             \/ \E i \in 1..Len(w) : Number(w[i]) = NaN
             \/ \E i \in 1..Len(f) : Number(f[i]) = NaN
       THEN NotFinite
     ELSE [finite |-> TRUE, neg |-> Head(t) = "-", whole |-> BigInt(w),
           part |-> \E i \in 1..Len(f) : f[i] # "0"]

\* Math.floor
floor(x) ==
  IF x.neg THEN (IF x.part THEN 0 - x.whole - 1 ELSE 0 - x.whole) ELSE x.whole

clampInt(x) == IF ~x.finite THEN 0 ELSE Max(0, floor(x))

\* localStorage.getItem of a key that is not stored
NoItem == <<"null">>

readLS(item, fallback) == IF item = NoItem THEN fallback ELSE item

VARIABLES
  \* chain (external): the controller contract
  chainHeight, chainSeconds,
  \* wallet (external)
  hasEthereum, walletChain,
  \* shared client storage
  energon_tick_lock_until, plasmaStored,
  \* React state and refs of the Dashboard component
  account, chainId, status, energonHeight, secondsUntilNext, tickAllowed,
  plasma, autoTickOn, isTicking, cooldownLeft, backoffRef, lastTickHeightRef,
  \* asynchronous work in flight
  tickPc, tickBy, tickPass, passes,
  \* history (not program state), recorded when recording is on
  recording, attempted, consecFails

tickVars ==
  <<chainHeight, chainSeconds, hasEthereum, walletChain,
    energon_tick_lock_until, plasmaStored, account, chainId, status,
    energonHeight, secondsUntilNext, tickAllowed, plasma, autoTickOn,
    isTicking, cooldownLeft, backoffRef, lastTickHeightRef, tickPc, tickBy,
    tickPass, passes, recording, attempted, consecFails>>

VARIABLES
  \* the observer page: which of the three versions of observer.js runs
  variant,
  \* wagmi useAccount()
  isConnected, address,
  \* wagmi useReadContract() results
  cubeCount, tokenOfOwnerByIndex, ownerOfRead,
  \* React state of ObserverInner
  manualTokenId, manualTouched, beat,
  \* the tokenURI read, the NFT state of ObserverInner and the metadata
  \* fetches in flight, each with the `alive` flag of the effect run that
  \* started it
  tokenUriRead, tokenUri, meta, metaErr, loadingMeta, fetches

metaVars == <<tokenUriRead, tokenUri, meta, metaErr, loadingMeta, fetches>>

obsVars ==
  <<variant, isConnected, address, cubeCount, tokenOfOwnerByIndex,
    ownerOfRead, manualTokenId, manualTouched, beat, metaVars>>

VARIABLES
  \* shared client storage: Date.now() minus the stored timestamp, NULL when
  \* the key is not stored
  energon_plasma_last_ts_v1,
  \* history: the last addPlasma call of the tab, and the last value the tab
  \* handed to savePlasmaToStorage (it outlives a reload)
  plasmaCall, saved

plasmaVars == <<energon_plasma_last_ts_v1, plasmaCall, saved>>

VARIABLES
  \* which Dashboard runs: the one of pages/dashboard.js ("current") or the
  \* one that follows the handler in pages/api/tick.js ("older")
  dashboard,
  \* React state of the Dashboard component written by refreshRead alone
  totalMinted, controllerAddr, cubeBal, eligibleText, eonBal,
  dashboardTokenUri,
  \* a refreshRead pass followed read by read: the read awaited, the local
  \* ctrl, and what the reads of the pass returned so far
  refresh

refreshVars ==
  <<dashboard, totalMinted, controllerAddr, cubeBal, eligibleText, eonBal,
    dashboardTokenUri, refresh>>

VARIABLES
  \* React state of the Mint component (pages/mint.js): a record with the
  \* fields account, chainId, status, priceWei, qty, isMinting
  mintPage,
  \* the mintNow call in flight: the await it is at, with its q and the
  \* priceWei it read
  mintRun,
  \* history: the last call of mintWithFLR or mint made by the page
  sent

mintVars == <<mintPage, mintRun, sent>>

VARIABLES
  \* the server of pages/api/tick.js: process.env, the request being handled
  \* and the await its handler is at, the last response
  processEnv, req, handlerPc, res,
  \* history: whether the handler of the request called tickEnergon()
  signed

cronVars == <<processEnv, req, handlerPc, res, signed>>

VARIABLES
  \* one page's async handler followed await by await: the page with its
  \* status string and busy flag (isTicking / isMinting)
  hpage,
  \* the handler calls in progress, the innermost last: the function and
  \* the await it is at
  hstack,
  \* how the outermost handler call ended: "none" while it runs,
  \* "returned", or "unhandled" for a rejection nobody caught
  hend,
  \* history: the last rejected await of the call and who caught it
  hfail

handlerVars == <<hpage, hstack, hend, hfail>>

VARIABLES
  \* the dashboard tabs of one browser, sharing energon_tick_lock_until:
  \* for each tab what its tick guards read (isTicking, cooldownLeft,
  \* lastTickHeightRef, the displayed energonHeight and tickAllowed)
  tabs,
  \* history: the seconds since a tab last began a tick submission, NULL
  \* before the first, counted up to LOCK_SECONDS
  sinceBegun

tabVars == <<tabs, sinceBegun>>

\* the state kept beside the pages' own: nothing of it is touched by the
\* steps of the tick flow, the observer, the mint page or the server
sideVars == <<handlerVars, tabVars>>

otherPages == <<mintVars, cronVars, sideVars>>

\* what the steps of the dashboard's tick flow and of the observer page
\* leave alone
besidesTick == <<obsVars, plasmaVars, refreshVars, otherPages>>
besidesObserver == <<tickVars, plasmaVars, refreshVars, otherPages>>

vars ==
  <<tickVars, obsVars, plasmaVars, refreshVars, mintVars, cronVars, sideVars>>

\* ------------------------------------------------- tick guardrail helpers
chainOk == chainId = MAINNET_CHAIN_ID

\* lockTickForAllTabs as it would be if it wrote nothing
lockTickForAllTabs_unwritten(seconds) == energon_tick_lock_until

lockTickForAllTabs(seconds) == DateNow + seconds * 1000

isTickLocked == DateNow < energon_tick_lock_until

setCooldown(seconds) == Max(0, seconds)

bumpBackoff ==
  IF backoffRef = 0 THEN BACKOFF_START ELSE Min(backoffRef * 2, BACKOFF_CAP)

clearBackoff == 0

parseHeight(h) == IF Number(h) # NaN THEN Number(h) ELSE NULL

alreadyTickedThisHeight(currentHeight) ==
  IF parseHeight(currentHeight) = NULL
    THEN FALSE
    ELSE lastTickHeightRef = parseHeight(currentHeight)

markTickHeight(currentHeight) ==
  IF parseHeight(currentHeight) = NULL
    THEN lastTickHeightRef
    ELSE parseHeight(currentHeight)

\* addPlasma as it would be if a release emptied the accumulator
addPlasma_emptied(prev, amount) ==
  IF amount <= 0 THEN prev
  ELSE IF prev + amount >= PLASMA_MAX THEN 0
  ELSE prev + amount

\* addPlasma(amount) applied to the value prev: the new value
addPlasma(prev, amount) ==
  LET add == clampInt(Num(amount))
      start == clampInt(Num(prev))
      summed == start + add
  IN IF add <= 0 \/ PLASMA_MAX <= 0 THEN prev
     ELSE IF summed >= PLASMA_MAX THEN summed % PLASMA_MAX
     ELSE summed

\* whether addPlasma(amount) on prev calls plasmaRelease
plasmaRelease(prev, amount) ==
  /\ clampInt(Num(amount)) > 0
  /\ PLASMA_MAX > 0
  /\ clampInt(Num(prev)) + clampInt(Num(amount)) >= PLASMA_MAX

\* whether addPlasma(amount) calls savePlasmaToStorage
addPlasmaSaves(amount) == clampInt(Num(amount)) > 0 /\ PLASMA_MAX > 0

\* the item savePlasmaToStorage(n) writes
savePlasmaToStorage(n) == String(n)

\* loadPlasmaFromStorage as it would be without the modulo
loadPlasmaFromStorage_unwrapped ==
  clampInt(NumberOfString(readLS(plasmaStored, <<"0">>)))

loadPlasmaFromStorage ==
  LET raw == readLS(plasmaStored, <<"0">>)
      n == clampInt(NumberOfString(raw))
  IN IF PLASMA_MAX > 0 THEN n % PLASMA_MAX ELSE 0

IdlePass == [st |-> "idle", may |-> {}]

\* a view call made while the contract holds height h and seconds sec
Call(read, h, sec) ==
  [st |-> read,
   may |-> {IF read = "energonHeight" THEN toString(h) ELSE toString(sec)}]

\* the pass p once the contract holds height h and seconds sec
ChainObserved(p, h, sec) ==
  IF p.st = "idle" THEN p
  ELSE [p EXCEPT !.may = @ \cup Call(p.st, h, sec).may]

RECURSIVE Copies(_, _)
Copies(B, S) ==
  IF S = {} THEN 0
  ELSE LET p == CHOOSE q \in S : TRUE IN B[p] + Copies(B, S \ {p})

\* ChainObserved applied to every pass of the bag B
AllObserved(B, h, sec) ==
  IF B = EmptyBag THEN EmptyBag
  ELSE [q \in {ChainObserved(p, h, sec) : p \in BagToSet(B)} |->
          Copies(B, {p \in BagToSet(B) : ChainObserved(p, h, sec) = q})]

\* ---------------------------------------------------------------- Init
NoCall == [prev |-> NULL, amount |-> NULL, releases |-> 0, saves |-> <<>>]

\* the mount effect's part on the timestamp: seeded when missing
mountPlasmaTs(stored) == IF stored = NULL THEN DateNow ELSE stored

\* no refreshRead pass followed
NoPass ==
  [pc |-> "idle", ctrl |-> "null",
   got |-> [totalMinted |-> "none", controller |-> "none",
            energonHeight |-> "none"]]

\* the display fields of refreshRead as useState leaves them
RefreshMount ==
  /\ totalMinted = "-"
  /\ controllerAddr = "-"
  /\ cubeBal = "-"
  /\ eligibleText = "-"
  /\ eonBal = "-"
  /\ dashboardTokenUri = "-"
  /\ refresh = NoPass

\* the tab after its first render and mount effects, on the storage it finds
DashboardMount ==
  /\ RefreshMount
  /\ chainHeight = 0
  /\ chainSeconds \in {0, 1}
  /\ hasEthereum \in BOOLEAN
  /\ walletChain \in WalletChains
  /\ energon_tick_lock_until \in {0, LOCK_SECONDS * 1000}
  /\ plasmaCall = NoCall
  /\ saved = NULL
  /\ account = ""
  /\ chainId = NULL
  /\ status = "Ready. (Connect wallet for eligibility + balances)"
  /\ energonHeight = "-"
  /\ secondsUntilNext = "-"
  /\ tickAllowed = FALSE
  /\ plasma = loadPlasmaFromStorage
  /\ autoTickOn = FALSE
  /\ isTicking = FALSE
  /\ cooldownLeft = 0
  /\ backoffRef = 0
  /\ lastTickHeightRef = NULL
  /\ tickPc = "idle"
  /\ tickBy = "none"
  /\ tickPass = IdlePass
  /\ passes = EmptyBag
  /\ recording = FALSE
  /\ attempted = {}
  /\ consecFails = 0

\* the tab loaded on empty storage
TickInit ==
  /\ dashboard = "current"
  /\ plasmaStored = NoItem
  /\ energon_plasma_last_ts_v1 = mountPlasmaTs(NULL)
  /\ DashboardMount

\* the guards of manualTick as they would be without the isTickLocked() test
manualTickVerdict_unlocked ==
  IF ~hasEthereum THEN "MetaMask not found"
  ELSE IF account = "" THEN "Connect wallet first"
  ELSE IF ~chainOk THEN "Wrong network. Switch to mainnet."
  ELSE IF isTicking THEN "return"
  ELSE IF cooldownLeft > 0 THEN "Cooldown: wait"
  ELSE IF ~tickAllowed
    THEN "Tick not allowed yet. Wait for Next Block to reach 0 sec."
  ELSE IF alreadyTickedThisHeight(energonHeight)
    THEN "Already ticked at this height. Waiting for height to change"
  ELSE "accept"

\* manualTick's guard chain as it would be without the isTicking test
manualTickVerdict_reentrant ==
  IF ~hasEthereum THEN "MetaMask not found"
  ELSE IF account = "" THEN "Connect wallet first"
  ELSE IF ~chainOk THEN "Wrong network. Switch to mainnet."
  ELSE IF cooldownLeft > 0 THEN "Cooldown: wait"
  ELSE IF isTickLocked
    THEN "Tick locked (another tab / recent tick). Try again soon."
  ELSE IF ~tickAllowed
    THEN "Tick not allowed yet. Wait for Next Block to reach 0 sec."
  ELSE IF alreadyTickedThisHeight(energonHeight)
    THEN "Already ticked at this height. Waiting for height to change"
  ELSE "accept"

\* ------------------------------------------------------------ manualTick
\* The verdict of manualTick's guard chain: the status string of the
\* rejection, "return" for the silent return, "accept" otherwise.
manualTickVerdict ==
  IF ~hasEthereum THEN "MetaMask not found"
  ELSE IF account = "" THEN "Connect wallet first"
  ELSE IF ~chainOk THEN "Wrong network. Switch to mainnet."
  ELSE IF isTicking THEN "return"
  ELSE IF cooldownLeft > 0 THEN "Cooldown: wait"
  ELSE IF isTickLocked
    THEN "Tick locked (another tab / recent tick). Try again soon."
  ELSE IF ~tickAllowed
    THEN "Tick not allowed yet. Wait for Next Block to reach 0 sec."
  ELSE IF alreadyTickedThisHeight(energonHeight)
    THEN "Already ticked at this height. Waiting for height to change"
  ELSE "accept"

\* history: the known heights at which this page made an attempt
Attempt(h) == IF ~recording \/ parseHeight(h) = NULL THEN attempted
              ELSE attempted \cup {parseHeight(h)}

ManualTick ==
  IF manualTickVerdict = "accept" THEN
    /\ isTicking' = TRUE
    /\ status' = "Submitting tick"
    /\ energon_tick_lock_until' = lockTickForAllTabs(LOCK_SECONDS)
    /\ cooldownLeft' = setCooldown(COOLDOWN_SECONDS)
    /\ lastTickHeightRef' = markTickHeight(energonHeight)
    /\ tickPc' = "getSigner"
    /\ tickBy' = "manual"
    /\ attempted' = Attempt(energonHeight)
    /\ UNCHANGED <<recording, chainHeight, chainSeconds, hasEthereum, walletChain,
                   plasmaStored, account, chainId, energonHeight,
                   secondsUntilNext, tickAllowed, plasma, autoTickOn,
                   backoffRef, tickPass, passes, consecFails>>
    /\ UNCHANGED besidesTick
  ELSE IF manualTickVerdict = "return" THEN
    UNCHANGED vars
  ELSE
    /\ status' = manualTickVerdict
    /\ UNCHANGED <<recording, chainHeight, chainSeconds, hasEthereum, walletChain,
                   energon_tick_lock_until, plasmaStored, account, chainId,
                   energonHeight, secondsUntilNext, tickAllowed, plasma,
                   autoTickOn, isTicking, cooldownLeft, backoffRef,
                   lastTickHeightRef, tickPc, tickBy, tickPass, passes, attempted,
                   consecFails>>
    /\ UNCHANGED besidesTick

\* the guards of the loop as they would be without the backoffRef test
autoTickAccepts_noBackoff ==
  /\ ~(~autoTickOn \/ ~hasEthereum \/ account = "" \/ ~chainOk)
  /\ ~(isTicking \/ cooldownLeft > 0 \/ isTickLocked)
  /\ tickAllowed
  /\ ~alreadyTickedThisHeight(energonHeight)

\* ---------------------------------------------------------- auto-tick loop
\* Whether one firing of the 6 s interval passes every early return of loop().
autoTickAccepts ==
  /\ ~(~autoTickOn \/ ~hasEthereum \/ account = "" \/ ~chainOk)
  /\ ~(isTicking \/ cooldownLeft > 0 \/ isTickLocked \/ backoffRef > 0)
  /\ tickAllowed
  /\ ~alreadyTickedThisHeight(energonHeight)

AutoTickLoop ==
  IF autoTickAccepts THEN
    /\ isTicking' = TRUE
    /\ status' = "Auto-tick: submitting"
    /\ energon_tick_lock_until' = lockTickForAllTabs(LOCK_SECONDS)
    /\ cooldownLeft' = setCooldown(COOLDOWN_SECONDS)
    /\ lastTickHeightRef' = markTickHeight(energonHeight)
    /\ tickPc' = "getSigner"
    /\ tickBy' = "auto"
    /\ attempted' = Attempt(energonHeight)
    /\ UNCHANGED <<recording, chainHeight, chainSeconds, hasEthereum, walletChain,
                   plasmaStored, account, chainId, energonHeight,
                   secondsUntilNext, tickAllowed, plasma, autoTickOn,
                   backoffRef, tickPass, passes, consecFails>>
    /\ UNCHANGED besidesTick
  ELSE
    UNCHANGED vars

\* --------------------------------------- the awaits of a tick in flight
\* getSigner(), cube.controller() and controller.tickEnergon() resolve.
TickAwaitResolves ==
  /\ tickPc \in {"getSigner", "controller", "tickEnergon"}
  /\ tickPc' = (IF tickPc = "getSigner" THEN "controller"
                ELSE IF tickPc = "controller" THEN "tickEnergon"
                ELSE "wait")
  /\ status' = (IF tickPc # "tickEnergon" THEN status
                ELSE IF tickBy = "manual" THEN "Tick submitted"
                ELSE "Auto-tick submitted")
  /\ UNCHANGED <<recording, chainHeight, chainSeconds, hasEthereum, walletChain,
                 energon_tick_lock_until, plasmaStored, account, chainId,
                 energonHeight, secondsUntilNext, tickAllowed, plasma,
                 autoTickOn, isTicking, cooldownLeft, backoffRef,
                 lastTickHeightRef, tickBy, tickPass, passes, attempted, consecFails>>
  /\ UNCHANGED besidesTick

\* the credit as it would be if the loop called addPlasma(1) too
tickPlasmaCredit_always(by) == 1

\* what a confirmed tick credits to the plasma accumulator
tickPlasmaCredit(by) == IF by = "manual" THEN 1 ELSE 0

\* tx.wait() resolves: the tick is mined and confirmed (the controller
\* advances energonHeight inside its window and reverts outside of it);
\* refreshRead(browserProvider) is awaited next (tickPass).
TickConfirmed ==
  /\ tickPc = "wait"
  /\ chainSeconds = 0
  /\ chainHeight < MaxHeight
  /\ chainHeight' = chainHeight + 1
  /\ chainSeconds' = 1
  /\ backoffRef' = clearBackoff
  /\ plasma' = addPlasma(plasma, tickPlasmaCredit(tickBy))
  /\ plasmaStored' =
       IF addPlasmaSaves(tickPlasmaCredit(tickBy))
         THEN savePlasmaToStorage(addPlasma(plasma, tickPlasmaCredit(tickBy)))
         ELSE plasmaStored
  /\ status' = (IF plasmaRelease(plasma, tickPlasmaCredit(tickBy))
                  THEN "Energon Plasma Release successful"
                ELSE IF tickBy = "manual" THEN "Tick confirmed"
                ELSE "Auto-tick confirmed")
  /\ tickPc' = "refreshRead"
  /\ tickPass' = Call("energonHeight", chainHeight', chainSeconds')
  /\ passes' = AllObserved(passes, chainHeight', chainSeconds')
  /\ consecFails' = 0
  /\ UNCHANGED <<recording, hasEthereum, walletChain,
                 energon_tick_lock_until, account, chainId, energonHeight,
                 secondsUntilNext, tickAllowed, autoTickOn, isTicking,
                 cooldownLeft, lastTickHeightRef, tickBy, attempted>>
  /\ UNCHANGED besidesTick

\* the catch block as it would be if it cleared lastTickHeightRef
lastTickHeightAfterFailure_cleared == NULL

\* what the catch block of a failed tick leaves in lastTickHeightRef
lastTickHeightAfterFailure == lastTickHeightRef

\* Any of the four awaits rejects: catch { setStatus; bumpBackoff } finally.
TickFails ==
  /\ tickPc \in {"getSigner", "controller", "tickEnergon", "wait"}
  /\ status' = (IF tickBy = "manual" THEN "Tick failed" ELSE "Auto-tick failed")
  /\ backoffRef' = bumpBackoff
  /\ lastTickHeightRef' = lastTickHeightAfterFailure
  /\ isTicking' = FALSE
  /\ tickPc' = "idle"
  /\ tickBy' = "none"
  /\ consecFails' = (IF recording THEN Min(consecFails + 1, FailCap)
                     ELSE consecFails)
  /\ UNCHANGED <<recording, chainHeight, chainSeconds, hasEthereum, walletChain,
                 energon_tick_lock_until, plasmaStored, account, chainId,
                 energonHeight, secondsUntilNext, tickAllowed, plasma,
                 autoTickOn, cooldownLeft, tickPass, passes, attempted>>
  /\ UNCHANGED besidesTick

\* ------------------------------------------------------------ refreshRead
\* A pass of refreshRead, as far as the tick guard reads what it writes:
\* the energonHeight read, the secondsUntilNextEnergonBlock read and the
\* final getNetwork().  The controller contract is taken to be set.  A pass
\* is [st: the view call it awaits, may: the answers the call may resolve
\* to], the values the contract has held since the call was made: the node
\* evaluates it at some instant before the continuation runs.  passes is the
\* bag of the passes started by the 1 s interval, the Refresh button and
\* connectWallet; tickPass is the pass a confirmed tick awaits.
FirstRead == Call("energonHeight", chainHeight, chainSeconds)

StartPass ==
  /\ BagCardinality(passes) < MaxPasses
  /\ passes' = passes (+) SetToBag({FirstRead})
  /\ UNCHANGED <<chainHeight, chainSeconds, hasEthereum, walletChain,
                 energon_tick_lock_until, plasmaStored, account, chainId,
                 status, energonHeight, secondsUntilNext, tickAllowed, plasma,
                 autoTickOn, isTicking, cooldownLeft, backoffRef,
                 lastTickHeightRef, tickPc, tickBy, tickPass,
                 recording, attempted, consecFails>>
  /\ UNCHANGED besidesTick

\* The pass after the continuation of its read: the next read, or finished.
AfterRead(p) ==
  IF p.st = "energonHeight"
    THEN Call("secondsUntilNext", chainHeight, chainSeconds)
    ELSE IdlePass

\* What the continuation of a read writes: `read` is the string the read
\* returned, or "err" when it threw.
ReadWrites(p, read) ==
  IF p.st = "energonHeight" THEN
    /\ energonHeight' = (IF read = "err" THEN "-" ELSE read)
    /\ UNCHANGED <<secondsUntilNext, tickAllowed, chainId>>
  ELSE
    /\ secondsUntilNext' = (IF read = "err" THEN "-" ELSE toString(Number(read)))
    /\ tickAllowed' = (IF read = "err" THEN FALSE ELSE Number(read) = 0)
    /\ chainId' = (IF hasEthereum THEN walletChain ELSE chainId)
    /\ UNCHANGED energonHeight

\* A read of a pass started by the interval resolves or rejects.
PassRead(p, read) ==
  /\ ReadWrites(p, read)
  /\ passes' = IF AfterRead(p) = IdlePass THEN passes (-) SetToBag({p})
               ELSE (passes (-) SetToBag({p})) (+) SetToBag({AfterRead(p)})
  /\ UNCHANGED <<chainHeight, chainSeconds, hasEthereum, walletChain,
                 energon_tick_lock_until, plasmaStored, account, status,
                 plasma, autoTickOn, isTicking, cooldownLeft, backoffRef,
                 lastTickHeightRef, tickPc, tickBy, tickPass,
                 recording, attempted, consecFails>>
  /\ UNCHANGED besidesTick

PassReadResolves ==
  \E p \in BagToSet(passes) : \E read \in p.may : PassRead(p, read)

PassReadRejects ==
  \E p \in BagToSet(passes) : PassRead(p, "err")

\* A read of the pass awaited by a confirmed tick resolves or rejects; after
\* the last one the finally block of the tick runs.
TickPassRead(read) ==
  /\ tickPc = "refreshRead"
  /\ tickPass.st # "idle"
  /\ ReadWrites(tickPass, read)
  /\ tickPass' = AfterRead(tickPass)
  /\ IF AfterRead(tickPass) = IdlePass
       THEN /\ isTicking' = FALSE
            /\ tickPc' = "idle"
            /\ tickBy' = "none"
       ELSE UNCHANGED <<isTicking, tickPc, tickBy>>
  /\ UNCHANGED <<chainHeight, chainSeconds, hasEthereum, walletChain,
                 energon_tick_lock_until, plasmaStored, account, status,
                 plasma, autoTickOn, cooldownLeft, backoffRef,
                 lastTickHeightRef, passes, recording, attempted,
                 consecFails>>
  /\ UNCHANGED besidesTick

TickPassReadResolves == \E read \in tickPass.may : TickPassRead(read)

TickPassReadRejects == tickPass.st # "idle" /\ TickPassRead("err")

\* ------------------------------------------------------ wallet and toggles
ConnectWallet ==
  /\ account = ""
  /\ IF ~hasEthereum THEN
       /\ status' = "MetaMask not found"
       /\ UNCHANGED <<chainId, account, passes>>
     ELSE IF walletChain # MAINNET_CHAIN_ID THEN
       /\ chainId' = walletChain
       /\ status' = "Wrong network."
       /\ UNCHANGED <<account, passes>>
     ELSE
       /\ BagCardinality(passes) < MaxPasses
       /\ chainId' = walletChain
       /\ account' = Addr
       /\ status' = "Connected"
       /\ passes' = passes (+) SetToBag({FirstRead})
  /\ UNCHANGED <<chainHeight, chainSeconds, hasEthereum, walletChain,
                 energon_tick_lock_until, plasmaStored, energonHeight,
                 secondsUntilNext, tickAllowed, plasma, autoTickOn, isTicking,
                 cooldownLeft, backoffRef, lastTickHeightRef, tickPc, tickBy,
                 tickPass, recording, attempted, consecFails>>
  /\ UNCHANGED besidesTick

\* The "Observe + Attempt" button (disabled unless connected on the chain).
ToggleAutoTick ==
  /\ account # ""
  /\ chainOk
  /\ autoTickOn' = ~autoTickOn
  /\ UNCHANGED <<recording, chainHeight, chainSeconds, hasEthereum, walletChain,
                 energon_tick_lock_until, plasmaStored, account, chainId,
                 status, energonHeight, secondsUntilNext, tickAllowed, plasma,
                 isTicking, cooldownLeft, backoffRef, lastTickHeightRef,
                 tickPc, tickBy, tickPass, passes, attempted, consecFails>>
  /\ UNCHANGED besidesTick

\* ------------------------------------------------------------------ time
\* d seconds pass: the cooldown and backoff intervals fire d times.
Advance(d) ==
  /\ energon_tick_lock_until' = Max(0, energon_tick_lock_until - d * 1000)
  /\ cooldownLeft' = Max(0, cooldownLeft - d)
  /\ backoffRef' = Max(0, backoffRef - d * 1000)
  /\ UNCHANGED <<recording, chainHeight, chainSeconds, hasEthereum, walletChain,
                 plasmaStored, account, chainId, status, energonHeight,
                 secondsUntilNext, tickAllowed, plasma, autoTickOn, isTicking,
                 lastTickHeightRef, tickPc, tickBy, tickPass, passes, attempted,
                 consecFails>>
  /\ UNCHANGED besidesTick

\* ----------------------------------------------------- the environment
\* The controller's window opens: secondsUntilNextEnergonBlock() reaches 0.
ChainWindowOpens ==
  /\ chainSeconds > 0
  /\ chainSeconds' = 0
  /\ tickPass' = ChainObserved(tickPass, chainHeight, chainSeconds')
  /\ passes' = AllObserved(passes, chainHeight, chainSeconds')
  /\ UNCHANGED <<recording, chainHeight, hasEthereum, walletChain,
                 energon_tick_lock_until, plasmaStored, account, chainId,
                 status, energonHeight, secondsUntilNext, tickAllowed, plasma,
                 autoTickOn, isTicking, cooldownLeft, backoffRef,
                 lastTickHeightRef, tickPc, tickBy, attempted,
                 consecFails>>
  /\ UNCHANGED besidesTick

\* A tickEnergon() transaction (of this tab or of anyone) is mined.
ChainTicked ==
  /\ chainSeconds = 0
  /\ chainHeight < MaxHeight
  /\ chainHeight' = chainHeight + 1
  /\ chainSeconds' = 1
  /\ tickPass' = ChainObserved(tickPass, chainHeight', chainSeconds')
  /\ passes' = AllObserved(passes, chainHeight', chainSeconds')
  /\ UNCHANGED <<recording, hasEthereum, walletChain, energon_tick_lock_until,
                 plasmaStored, account, chainId, status, energonHeight,
                 secondsUntilNext, tickAllowed, plasma, autoTickOn, isTicking,
                 cooldownLeft, backoffRef, lastTickHeightRef, tickPc, tickBy, attempted, consecFails>>
  /\ UNCHANGED besidesTick

\* ================================================================ observer
\* ObserverInner of src/pages/observer.js.  The three versions of the file
\* derive mode, candidateTokenId and ownership alike; they differ in what
\* enables the block watcher and in what the reset effect clears.
Variants == {"v1", "grid", "early"}

Cubes == 0..MaxCubes
TokenIds == 0..MaxTokenId

\* Addresses are the sequences of their hex digits; <<>> is no address.
WalletAddrs == {<<"A", "b">>, <<"C", "d">>}
OwnerAddrs == {<<"A", "b">>, <<"a", "b">>, <<"C", "d">>}

\* String.prototype.toLowerCase on hex digits
LowerOf(c) ==
  CASE c = "A" -> "a" [] c = "B" -> "b" [] c = "C" -> "c"
    [] c = "D" -> "d" [] c = "E" -> "e" [] c = "F" -> "f"
    [] OTHER -> c

toLowerCase(str) == [i \in 1..Len(str) |-> LowerOf(str[i])]

\* sameAddr as it would be if it compared nothing
sameAddr_any(a, b) == a # <<>> /\ b # <<>>

sameAddr(a, b) ==
  IF a = <<>> \/ b = <<>> THEN FALSE ELSE toLowerCase(a) = toLowerCase(b)

\* safeBigIntToString(v) for the one-digit ids of the model
safeBigIntToString(v) == <<toString(v)>>

\* what the user may type in the token id input
TypedInputs ==
  {<<>>, <<"x">>, <<"1", "x">>} \cup {<<toString(t)>> : t \in TokenIds}
                                \cup {<<" ", toString(t)>> : t \in TokenIds}

\* a query without data: status pending
NoData == [status |-> "pending", data |-> NULL]
\* the ownerOf query of a key before it settles; error is what made it fail
NoOwner(key) ==
  [key |-> key, status |-> "pending", data |-> <<>>, error |-> "none"]

\* cubeN as it would be if it kept only whether a cube is held
cubeN_flag == IF cubeCount.data = NULL \/ cubeCount.data = 0 THEN 0 ELSE 1

cubeN == IF cubeCount.data = NULL \/ cubeCount.data = 0 THEN 0 ELSE cubeCount.data

mode ==
  IF ~isConnected THEN "DISCONNECTED"
  ELSE IF cubeN = 0 THEN "SILENT"
  ELSE IF cubeN = 1 THEN "COHERENT"
  ELSE "FRACTURED"

manualTokenIdClean == trim(manualTokenId)
manualTokenIdValid == IsDigits(manualTokenIdClean)

\* candidateTokenId as it would be if the enumerated id came first
candidateTokenId_indexFirst ==
  IF mode # "COHERENT" THEN NULL
  ELSE IF tokenOfOwnerByIndex.status = "success" /\ tokenOfOwnerByIndex.data # NULL
    THEN tokenOfOwnerByIndex.data
  ELSE IF manualTokenIdValid THEN BigInt(manualTokenIdClean)
  ELSE NULL

candidateTokenId ==
  IF mode # "COHERENT" THEN NULL
  ELSE IF manualTokenIdValid THEN BigInt(manualTokenIdClean)
  ELSE IF tokenOfOwnerByIndex.status = "success" /\ tokenOfOwnerByIndex.data # NULL
    THEN tokenOfOwnerByIndex.data
  ELSE NULL

\* query.enabled of the three reads
cubeCountEnabled == address # <<>>
tokenOfOwnerByIndexEnabled == address # <<>> /\ isConnected /\ mode = "COHERENT"
ownerOfReadEnabled ==
  address # <<>> /\ isConnected /\ mode = "COHERENT" /\ candidateTokenId # NULL

ownership ==
  IF ~isConnected \/ mode # "COHERENT" \/ address = <<>> \/ candidateTokenId = NULL
    THEN [ok |-> FALSE, status |-> "IDLE", owner |-> <<>>]
  ELSE IF ownerOfRead.status = "pending" /\ ownerOfReadEnabled
    THEN [ok |-> FALSE, status |-> "CHECKING", owner |-> <<>>]
  ELSE IF ownerOfRead.status = "error"
    THEN [ok |-> FALSE, status |-> "NOT_MINTED", owner |-> <<>>]
  ELSE IF ownerOfRead.status = "success"
    THEN IF sameAddr(ownerOfRead.data, address)
           THEN [ok |-> TRUE, status |-> "OWNED", owner |-> ownerOfRead.data]
           ELSE [ok |-> FALSE, status |-> "NOT_OWNED", owner |-> ownerOfRead.data]
  ELSE [ok |-> FALSE, status |-> "IDLE", owner |-> <<>>]

derivedTokenId == IF ownership.ok THEN candidateTokenId ELSE NULL

isBound == mode = "COHERENT" /\ derivedTokenId # NULL

\* useWatchBlockNumber({ enabled })
heartbeatEnabled ==
  IF variant = "early" THEN isConnected /\ mode = "COHERENT"
  ELSE isConnected /\ mode = "COHERENT" /\ isBound

\* <Starfield enabled> / <EnergonField enabled> and <TransactionSparks
\* enabled>; the early version renders neither
starfieldEnabled == variant # "early" /\ mode = "COHERENT" /\ isBound

\* ---- token metadata
MAX_ATTRS == 10

\* the tokenURI query of a key before it settles
NoUri(key) == [key |-> key, status |-> "pending", data |-> <<>>]

\* query.enabled of the tokenURI read, and its key
tokenUriReadEnabled == mode = "COHERENT" /\ derivedTokenId # NULL

\* A URI is the sequence of its parts, the scheme (or the start of a raw CID)
\* first: <<"ipfs://", "bafy", "/", "7", ".json">>.  <<>> is null.
ipfsToHttps(uri) ==
  IF uri = <<>> THEN <<>>
  ELSE IF Head(uri) = "ipfs://" THEN <<"https://ipfs.io/ipfs/">> \o Tail(uri)
  ELSE IF Head(uri) \in {"http://", "https://"} THEN uri
  ELSE IF Head(uri) \in {"bafy", "Qm"} THEN <<"https://ipfs.io/ipfs/">> \o uri
  ELSE uri

\* the gateways fetchJsonWithGatewayFallback tries; the early version
\* fetches the url alone
gateways(url) ==
  IF variant # "early" /\ Head(url) = "https://ipfs.io/ipfs/"
    THEN <<url, <<"https://cloudflare-ipfs.com/ipfs/">> \o Tail(url)>>
    ELSE <<url>>

\* meta?.attributes when it is an array
attrs == IF meta = <<>> THEN <<>> ELSE meta[1].attributes
attrsCapped == SubSeq(attrs, 1, Min(Len(attrs), MAX_ATTRS))

\* attributesToMap: the value of the last attribute with each key
attributesToMap(as) ==
  [k \in {as[i].trait_type : i \in 1..Len(as)} |->
     as[CHOOSE i \in 1..Len(as) :
          /\ as[i].trait_type = k
          /\ \A j \in 1..Len(as) : as[j].trait_type = k => j <= i].value]

attrMap == attributesToMap(attrsCapped)

rarityTier ==
  IF "Rarity Tier" \in DOMAIN attrMap /\ attrMap["Rarity Tier"] # ""
    THEN attrMap["Rarity Tier"]
    ELSE "Common"

tokenIdStr ==
  IF derivedTokenId # NULL THEN safeBigIntToString(derivedTokenId) ELSE <<>>

\* rarityLabel as it would be without the token 1 rule
rarityLabel_tierOnly == rarityTier

rarityLabel == IF tokenIdStr = <<"1">> THEN "Genesis" ELSE rarityTier

\* the text after "Rarity:" in the token panel
shownRarity ==
  IF variant = "early"
    THEN (IF derivedTokenId # NULL /\ derivedTokenId # 0 THEN rarityLabel ELSE "-")
    ELSE (IF isBound THEN rarityLabel ELSE "-")

\* the guards of run() in the metadata effect
runFetches(m, tid, uri) == m = "COHERENT" /\ tid # NULL /\ tid # 0 /\ uri # <<>>

\* the cleanup of the metadata effect: alive = false
cleanedUp(fs) == {[f EXCEPT !.alive = FALSE] : f \in fs}

fetchOf(uri, isAlive) ==
  [alive |-> isAlive, url |-> ipfsToHttps(uri), gateway |-> 1]

ObserverMount ==
  /\ isConnected = FALSE
  /\ address = <<>>
  /\ cubeCount = NoData
  /\ tokenOfOwnerByIndex = NoData
  /\ ownerOfRead = NoOwner(NULL)
  /\ manualTokenId = <<>>
  /\ manualTouched = FALSE
  /\ beat = 0
  /\ tokenUriRead = NoUri(NULL)
  /\ tokenUri = <<>>
  /\ meta = <<>>
  /\ metaErr = ""
  /\ loadingMeta = FALSE
  /\ fetches = {}

\* ---- the effects that run after a render, given the state just assigned
\* "Reset when leaving coherent or disconnecting": deps [isConnected, mode]
ResetRuns ==
  /\ <<isConnected', mode'>> # <<isConnected, mode>>
  /\ ~isConnected' \/ mode' # "COHERENT"

\* the autofill effect as it would be without its manualTouched guard
AutofillRuns_alsoTouched ==
  /\ <<isConnected', mode', manualTouched',
       tokenOfOwnerByIndex'.status = "success", tokenOfOwnerByIndex'.data>>
       # <<isConnected, mode, manualTouched,
           tokenOfOwnerByIndex.status = "success", tokenOfOwnerByIndex.data>>
  /\ isConnected' /\ mode' = "COHERENT"
  /\ tokenOfOwnerByIndex'.status = "success"
  /\ tokenOfOwnerByIndex'.data # NULL

\* "Autofill once (unless user typed)"
AutofillRuns ==
  /\ <<isConnected', mode', manualTouched',
       tokenOfOwnerByIndex'.status = "success", tokenOfOwnerByIndex'.data>>
       # <<isConnected, mode, manualTouched,
           tokenOfOwnerByIndex.status = "success", tokenOfOwnerByIndex.data>>
  /\ isConnected' /\ mode' = "COHERENT"
  /\ ~manualTouched'
  /\ tokenOfOwnerByIndex'.status = "success"
  /\ tokenOfOwnerByIndex'.data # NULL

\* The effects on the NFT state after an event that left read in the
\* tokenURI query: the query follows its key, derivedTokenId; the reset
\* effect (early version: the clear effect on derivedTokenId) and the
\* setTokenUri effect run; the metadata effect runs on the new mode and
\* derivedTokenId with the tokenUri of this render, and again once the new
\* tokenUri is rendered.
MetaRendered(read) ==
  \E m \in {mode'}, tid \in {derivedTokenId'}, reset \in {ResetRuns},
     m0 \in {mode}, tid0 \in {derivedTokenId} :
    \E kept \in {IF (IF m = "COHERENT" THEN tid ELSE NULL) = read.key
                   THEN read
                   ELSE NoUri(IF m = "COHERENT" THEN tid ELSE NULL)} :
      LET cleared == IF variant = "early" THEN tid # tid0 ELSE reset
          uriSet == /\ kept.status = "success"
                    /\ kept.data # <<>>
                    /\ <<kept.status, kept.data>>
                         # <<tokenUriRead.status, tokenUriRead.data>>
          uri == IF uriSet THEN kept.data
                 ELSE IF cleared THEN <<>>
                 ELSE tokenUri
          first == <<m, tid>> # <<m0, tid0>>
          second == uri # tokenUri
          start1 == first /\ runFetches(m, tid, tokenUri)
          start2 == second /\ runFetches(m, tid, uri)
          old == IF first \/ second THEN cleanedUp(fetches) ELSE fetches
          with1 == IF start1 THEN old \cup {fetchOf(tokenUri, ~second)}
                   ELSE old
          with2 == IF start2 THEN with1 \cup {fetchOf(uri, TRUE)} ELSE with1
      IN /\ tokenUriRead' = kept
         /\ tokenUri' = uri
         /\ meta' = (IF cleared THEN <<>> ELSE meta)
         /\ metaErr' = (IF start1 \/ start2 \/ cleared THEN "" ELSE metaErr)
         /\ loadingMeta' = (IF start1 \/ start2 THEN TRUE
                            ELSE IF cleared THEN FALSE
                            ELSE loadingMeta)
         /\ fetches' = with2
         /\ Cardinality(with2) <= MaxFetches

\* The render after an event that set isConnected, address, cubeCount and
\* tokenOfOwnerByIndex and left typed/touched in the input: the effects run
\* and the ownerOf query follows its key, candidateTokenId.
Rendered(typed, touched) ==
  /\ manualTouched' = (IF ResetRuns THEN FALSE ELSE touched)
  /\ manualTokenId' =
       (IF ResetRuns THEN <<>>
        ELSE IF AutofillRuns /\ trim(typed) = <<>>
          THEN safeBigIntToString(tokenOfOwnerByIndex'.data)
        ELSE typed)
  /\ ownerOfRead' = (IF candidateTokenId' = ownerOfRead.key THEN ownerOfRead
                     ELSE NoOwner(candidateTokenId'))
  /\ beat' = (IF ResetRuns /\ variant # "early" THEN 0 ELSE beat)
  /\ UNCHANGED <<variant, besidesObserver>>
  /\ MetaRendered(tokenUriRead)

\* ---- events
Connect(a) ==
  /\ ~isConnected
  /\ isConnected' = TRUE
  /\ address' = a
  /\ cubeCount' = NoData
  /\ tokenOfOwnerByIndex' = NoData
  /\ Rendered(manualTokenId, manualTouched)

Disconnect ==
  /\ isConnected
  /\ isConnected' = FALSE
  /\ address' = <<>>
  /\ cubeCount' = NoData
  /\ tokenOfOwnerByIndex' = NoData
  /\ Rendered(manualTokenId, manualTouched)

\* the wallet switches to another account
AccountChanged(a) ==
  /\ isConnected
  /\ a # address
  /\ address' = a
  /\ cubeCount' = NoData
  /\ tokenOfOwnerByIndex' = NoData
  /\ UNCHANGED isConnected
  /\ Rendered(manualTokenId, manualTouched)

\* balanceOf(address) resolves (first fetch or refetch)
CubeCountResolves(n) ==
  /\ cubeCountEnabled
  /\ cubeCount' = [status |-> "success", data |-> n]
  /\ UNCHANGED <<isConnected, address, tokenOfOwnerByIndex>>
  /\ Rendered(manualTokenId, manualTouched)

\* tokenOfOwnerByIndex(address, 0) resolves, or rejects (not enumerable)
TokenOfOwnerByIndexSettles(t) ==
  /\ tokenOfOwnerByIndexEnabled
  /\ tokenOfOwnerByIndex.status = "pending"
  /\ tokenOfOwnerByIndex' =
       (IF t = NULL THEN [status |-> "error", data |-> NULL]
        ELSE [status |-> "success", data |-> t])
  /\ UNCHANGED <<isConnected, address, cubeCount>>
  /\ Rendered(manualTokenId, manualTouched)

\* onChange of the token id input (rendered in mode COHERENT)
TypeTokenId(typed) ==
  /\ mode = "COHERENT"
  /\ UNCHANGED <<isConnected, address, cubeCount, tokenOfOwnerByIndex>>
  /\ Rendered(typed, TRUE)

\* ownerOf(candidateTokenId) resolves, or reverts (unminted id)
OwnerOfSettles(owner) ==
  /\ ownerOfReadEnabled
  /\ ownerOfRead.status = "pending"
  /\ ownerOfRead' =
       (IF owner = <<>>
          THEN [ownerOfRead EXCEPT !.status = "error", !.error = "revert"]
        ELSE [ownerOfRead EXCEPT !.status = "success", !.data = owner])
  /\ UNCHANGED <<variant, isConnected, address, cubeCount,
                 tokenOfOwnerByIndex, manualTokenId, manualTouched, beat,
                 besidesObserver>>
  /\ MetaRendered(tokenUriRead)

\* the ownerOf request itself fails (transport error, retries used up)
OwnerOfFails ==
  /\ ownerOfReadEnabled
  /\ ownerOfRead.status = "pending"
  /\ ownerOfRead' = [ownerOfRead EXCEPT !.status = "error", !.error = "network"]
  /\ UNCHANGED <<variant, isConnected, address, cubeCount,
                 tokenOfOwnerByIndex, manualTokenId, manualTouched, beat,
                 besidesObserver>>
  /\ MetaRendered(tokenUriRead)

\* a new block: onBlockNumber runs when the watcher is enabled
OnBlockNumber ==
  /\ heartbeatEnabled
  /\ beat < MaxBeat
  /\ beat' = beat + 1
  /\ UNCHANGED <<variant, isConnected, address, cubeCount,
                 tokenOfOwnerByIndex, ownerOfRead, manualTokenId,
                 manualTouched, metaVars, besidesObserver>>

\* tokenURI(derivedTokenId) resolves with the token's URI, or fails
TokenUriSettles(uri) ==
  /\ tokenUriReadEnabled
  /\ tokenUriRead.status = "pending"
  /\ UNCHANGED <<variant, isConnected, address, cubeCount,
                 tokenOfOwnerByIndex, ownerOfRead, manualTokenId,
                 manualTouched, beat, besidesObserver>>
  /\ MetaRendered(IF uri = <<>> THEN [tokenUriRead EXCEPT !.status = "error"]
                  ELSE [tokenUriRead EXCEPT !.status = "success",
                                            !.data = uri])

\* the guards before the three writes of a settled fetch as they would be
\* without the alive flag
mayWrite_unguarded(f) == TRUE

\* `if (!alive) return;` before each write of a settled fetch
mayWrite(f) == f.alive

\* the document a gateway serves for a url: the metadata of its token
TokenOfUrl(url) == Number(url[Len(url) - 1])

\* a request of a fetch is answered with the metadata json
FetchResolves(f, json) ==
  /\ f \in fetches
  /\ fetches' = fetches \ {f}
  /\ IF mayWrite(f)
       THEN /\ meta' = <<json>>
            /\ loadingMeta' = FALSE
            /\ UNCHANGED metaErr
       ELSE UNCHANGED <<meta, metaErr, loadingMeta>>
  /\ UNCHANGED <<variant, isConnected, address, cubeCount,
                 tokenOfOwnerByIndex, ownerOfRead, manualTokenId,
                 manualTouched, beat, tokenUriRead, tokenUri,
                 besidesObserver>>

\* a request of a fetch fails (network error or status not ok): the next
\* gateway is tried, and after the last one the fetch throws
FetchFails(f) ==
  /\ f \in fetches
  /\ IF f.gateway < Len(gateways(f.url))
       THEN /\ fetches' = (fetches \ {f}) \cup {[f EXCEPT !.gateway = @ + 1]}
            /\ UNCHANGED <<meta, metaErr, loadingMeta>>
       ELSE /\ fetches' = fetches \ {f}
            /\ IF mayWrite(f)
                 THEN /\ meta' = <<>>
                      /\ metaErr' = "Metadata fetch failed"
                      /\ loadingMeta' = FALSE
                 ELSE UNCHANGED <<meta, metaErr, loadingMeta>>
  /\ UNCHANGED <<variant, isConnected, address, cubeCount,
                 tokenOfOwnerByIndex, ownerOfRead, manualTokenId,
                 manualTouched, beat, tokenUriRead, tokenUri,
                 besidesObserver>>

\* the page is left and opened again: the effects of the old component are
\* cleaned up, its requests stay in flight, a new component mounts
Remount ==
  /\ isConnected' = FALSE
  /\ address' = <<>>
  /\ cubeCount' = NoData
  /\ tokenOfOwnerByIndex' = NoData
  /\ ownerOfRead' = NoOwner(NULL)
  /\ manualTokenId' = <<>>
  /\ manualTouched' = FALSE
  /\ beat' = 0
  /\ tokenUriRead' = NoUri(NULL)
  /\ tokenUri' = <<>>
  /\ meta' = <<>>
  /\ metaErr' = ""
  /\ loadingMeta' = FALSE
  /\ fetches' = cleanedUp(fetches)
  /\ UNCHANGED <<variant, besidesObserver>>

\* ------------------------------------------------------------ mint page
\* priceInFlrWei() as read from the contract (wei)
MintPrices == {0, 5}

\* the value of the quantity input: "" while it is empty or not a number
QtyInputs ==
  {<<>>, <<"0">>, <<"3">>, <<"2", "5">>, <<"2", "6">>, <<"-", "2">>,
   <<"2", ".", "5">>, <<"0", ".", "5">>, <<"2", "5", ".", "5">>}

\* Math.min(n, x) and Math.max(n, x) of an integer n and a number x
MathMin(n, x) == IF ~x.finite THEN x ELSE IF floor(x) >= n THEN Num(n) ELSE x

MathMax(n, x) ==
  IF ~x.finite THEN x
  ELSE IF floor(x) < n \/ (floor(x) = n /\ ~x.part) THEN Num(n)
  ELSE x

\* Number.isInteger(x): BigInt(x) throws a RangeError otherwise
isInteger(x) == x.finite /\ ~x.part

\* const q = Math.max(1, Math.min(25, Number(qty || 1)))
mintQuantity(qty) ==
  MathMax(1, MathMin(25, NumberOfString(IF qty = <<>> THEN <<"1">> ELSE qty)))

\* useState initial values of Mint; qty starts as the number 1
MintMounted ==
  [account |-> "", chainId |-> NULL, status |-> "Not connected",
   priceWei |-> NULL, qty |-> <<"1">>, isMinting |-> FALSE]

NoRun == [pc |-> "idle", q |-> Num(0), price |-> 0]
NoTx == [fn |-> "none", q |-> Num(0), value |-> 0]

MintMount == mintPage = MintMounted /\ mintRun = NoRun /\ sent = NoTx

\* what the steps of the mint page leave alone
besidesMint ==
  <<chainHeight, chainSeconds, hasEthereum, energon_tick_lock_until,
    plasmaStored, account, chainId, status, energonHeight, secondsUntilNext,
    tickAllowed, plasma, autoTickOn, isTicking, cooldownLeft, backoffRef,
    lastTickHeightRef, tickPc, tickBy, tickPass, passes, recording, attempted,
    consecFails, obsVars, plasmaVars, refreshVars, cronVars, sideVars>>

\* The verdict of mintNow's guard chain: the status string of the rejection,
\* "accept" otherwise.  !priceWei is true of null and of 0n.
mintNowVerdict ==
  IF ~hasEthereum THEN "MetaMask not found"
  ELSE IF mintPage.account = "" THEN "Connect wallet first"
  ELSE IF mintPage.chainId # MAINNET_CHAIN_ID
    THEN "Wrong network. Switch to Flare Mainnet."
  ELSE IF mintPage.priceWei = NULL \/ mintPage.priceWei = 0
    THEN "Price not loaded yet"
  ELSE "accept"

\* refreshRead of the mint page once its reads have settled: the price (null
\* when the three price reads fail) and, with a wallet, the wallet's chain
mintRefreshed(page, price) ==
  [page EXCEPT !.priceWei = price,
               !.chainId = IF hasEthereum THEN walletChain ELSE @]

\* the Refresh button, or the refreshRead of the mount effect
MintRefreshRead(price) ==
  /\ mintPage' = mintRefreshed(mintPage, price)
  /\ UNCHANGED <<mintRun, sent, walletChain, besidesMint>>

\* connectWallet
MintConnectWallet(price) ==
  /\ mintRun.pc = "idle"
  /\ IF ~hasEthereum
       THEN mintPage' = [mintPage EXCEPT !.status = "MetaMask not found"]
       ELSE IF walletChain # MAINNET_CHAIN_ID
         THEN mintPage' =
                [mintPage EXCEPT !.chainId = walletChain,
                                 !.status = "Wrong network. Click Switch"]
       ELSE mintPage' =
              mintRefreshed([mintPage EXCEPT !.chainId = walletChain,
                                             !.account = Addr,
                                             !.status = "Connected"], price)
  /\ UNCHANGED <<mintRun, sent, walletChain, besidesMint>>

\* onChange of the quantity input
SetQty(typed) ==
  /\ mintPage' = [mintPage EXCEPT !.qty = typed]
  /\ UNCHANGED <<mintRun, sent, walletChain, besidesMint>>

\* the wallet changes chain; the page's chainChanged listener has yet to run
MintChainChanged(c) ==
  /\ hasEthereum
  /\ c # walletChain
  /\ walletChain' = c
  /\ UNCHANGED <<mintVars, besidesMint>>

\* window.location.reload(): by the chainChanged or accountsChanged
\* listener, or by the user; a mintNow call in flight ends with the page
MintReload ==
  /\ mintPage' = MintMounted
  /\ mintRun' = NoRun
  /\ UNCHANGED <<sent, walletChain, besidesMint>>

\* a click on Mint (the button is disabled while isMinting)
MintNow ==
  /\ ~mintPage.isMinting
  /\ mintRun.pc = "idle"
  /\ IF mintNowVerdict # "accept"
       THEN /\ mintPage' = [mintPage EXCEPT !.status = mintNowVerdict]
            /\ UNCHANGED mintRun
       ELSE /\ mintPage' = [mintPage EXCEPT !.isMinting = TRUE,
                                            !.status = "Preparing mint"]
            /\ mintRun' = [pc |-> "getSigner", q |-> mintQuantity(mintPage.qty),
                           price |-> mintPage.priceWei]
  /\ UNCHANGED <<sent, walletChain, besidesMint>>

\* catch and finally of mintNow
mintFailed(message) ==
  /\ mintPage' = [mintPage EXCEPT !.status = message, !.isMinting = FALSE]
  /\ mintRun' = NoRun

\* getSigner() settles; then totalValue = priceWei * BigInt(q) and the call
\* of mintWithFLR(q, { value: totalValue })
GetSignerSettles(ok) ==
  /\ mintRun.pc = "getSigner"
  /\ IF ~ok THEN mintFailed("Mint failed") /\ UNCHANGED sent
     ELSE IF ~isInteger(mintRun.q)
       THEN /\ mintFailed("cannot be converted to a BigInt")
            /\ UNCHANGED sent
     ELSE /\ mintRun' = [mintRun EXCEPT !.pc = "mintWithFLR"]
          /\ sent' = [fn |-> "mintWithFLR", q |-> mintRun.q,
                      value |-> mintRun.price * floor(mintRun.q)]
          /\ UNCHANGED mintPage
  /\ UNCHANGED <<walletChain, besidesMint>>

\* mintWithFLR or mint settles: on a throw of mintWithFLR, mint(q, { value })
\* is called
MintCallSettles(ok) ==
  /\ mintRun.pc \in {"mintWithFLR", "mint"}
  /\ IF ok
       THEN /\ mintPage' = [mintPage EXCEPT !.status = "Mint submitted"]
            /\ mintRun' = [mintRun EXCEPT !.pc = "wait"]
            /\ UNCHANGED sent
     ELSE IF mintRun.pc = "mintWithFLR"
       THEN /\ mintRun' = [mintRun EXCEPT !.pc = "mint"]
            /\ sent' = [fn |-> "mint", q |-> mintRun.q,
                        value |-> mintRun.price * floor(mintRun.q)]
            /\ UNCHANGED mintPage
     ELSE mintFailed("Mint failed") /\ UNCHANGED sent
  /\ UNCHANGED <<walletChain, besidesMint>>

\* tx.wait() settles; after it refreshRead(browserProvider), then finally
MintWaitSettles(ok, price) ==
  /\ mintRun.pc = "wait"
  /\ IF ok
       THEN /\ mintPage' =
                 mintRefreshed([mintPage EXCEPT !.status = "Mint confirmed",
                                                !.isMinting = FALSE], price)
            /\ mintRun' = NoRun
       ELSE mintFailed("Mint failed")
  /\ UNCHANGED <<sent, walletChain, besidesMint>>

\* ------------------------------------------------------- server tick (cron)
\* process.env values and header values are strings, sequences of
\* characters; a variable that is not set, a header that is not sent
Undefined == <<"undefined">>

Secrets == {<<>>, <<"s", "1">>, <<"s", "2">>}
Methods == {"GET", "POST", "HEAD"}

NoReq == [method |-> "none", secret |-> Undefined]
NoRes == [status |-> 0, body |-> [error |-> "none"]]

\* the server as deployed with its three variables set, no request yet
Deployed ==
  /\ processEnv = [CRON_SECRET |-> <<"s", "1">>, FLARE_RPC_URL |-> <<"u">>,
                   TICK_PRIVATE_KEY |-> <<"k">>]
  /\ req = NoReq
  /\ handlerPc = "idle"
  /\ res = NoRes
  /\ signed = FALSE

\* !v of a string or undefined
falsy(v) == v = Undefined \/ v = <<>>

\* the secret test as it would be if only the comparison were made
unauthorized_compareOnly(secret) == secret # processEnv.CRON_SECRET

\* !secret || secret !== process.env.CRON_SECRET
unauthorized(secret) == falsy(secret) \/ secret # processEnv.CRON_SECRET

\* the throw of the try block before the provider is built
missingEnv ==
  IF falsy(processEnv.FLARE_RPC_URL) THEN "Missing FLARE_RPC_URL"
  ELSE IF falsy(processEnv.TICK_PRIVATE_KEY) THEN "Missing TICK_PRIVATE_KEY"
  ELSE IF falsy(processEnv.CRON_SECRET) THEN "Missing CRON_SECRET"
  ELSE "none"

\* what the steps of the server leave alone
besidesCron ==
  <<tickVars, obsVars, plasmaVars, refreshVars, mintVars, processEnv,
    sideVars>>

\* res.status(500).json({ ok: false, error })
serverError(message) ==
  /\ res' = [status |-> 500, body |-> [ok |-> FALSE, error |-> message]]
  /\ handlerPc' = "idle"

\* handler(req, res) up to its first await
Handle(method, secret) ==
  /\ handlerPc = "idle"
  /\ req' = [method |-> method, secret |-> secret]
  /\ IF method # "GET"
       THEN /\ res' = [status |-> 405,
                       body |-> [error |-> "Method not allowed"]]
            /\ handlerPc' = "idle"
            /\ signed' = FALSE
     ELSE IF unauthorized(secret)
       THEN /\ res' = [status |-> 401, body |-> [error |-> "Unauthorized"]]
            /\ handlerPc' = "idle"
            /\ signed' = FALSE
     ELSE IF missingEnv # "none"
       THEN serverError(missingEnv) /\ signed' = FALSE
     ELSE /\ handlerPc' = "tickEnergon"
          /\ signed' = TRUE
          /\ res' = NoRes
  /\ UNCHANGED besidesCron

\* controller.tickEnergon() settles
TickEnergonSettles(ok) ==
  /\ handlerPc = "tickEnergon"
  /\ IF ok THEN handlerPc' = "wait" /\ UNCHANGED res
     ELSE serverError("tickEnergon failed")
  /\ UNCHANGED <<req, signed, besidesCron>>

\* tx.wait() settles
ReceiptSettles(ok) ==
  /\ handlerPc = "wait"
  /\ IF ok THEN handlerPc' = "energonHeight" /\ UNCHANGED res
     ELSE serverError("transaction failed")
  /\ UNCHANGED <<req, signed, besidesCron>>

\* controller.energonHeight() settles
HeightSettles(ok, height) ==
  /\ handlerPc = "energonHeight"
  /\ IF ok
       THEN /\ res' = [status |-> 200,
                       body |-> [ok |-> TRUE, tx |-> "0xhash",
                                 blockNumber |-> 1,
                                 energonHeight |-> String(height)]]
            /\ handlerPc' = "idle"
     ELSE serverError("energonHeight failed")
  /\ UNCHANGED <<req, signed, besidesCron>>

\* ------------------------------------------- the handlers' error handling
\* pages/dashboard.js 303-579 and pages/mint.js 44-205: every async handler
\* of the two pages as the sequence of its awaits, each with the place a
\* rejection of it is caught.

\* err.code of an unrecognised chain, and another code
UNRECOGNIZED_CHAIN == 4902
Codes == {UNRECOGNIZED_CHAIN, 4001}
\* err.message (and shortMessage): missing or a text
Messages == {"", "user rejected the request"}

HandlerPages == {"dashboard", "mint"}

\* e?.message || fallback
messageOr_unguarded(msg, fallback) == msg

messageOr(msg, fallback) == IF msg = "" THEN fallback ELSE msg

\* An await of a handler: op is the request, read or send awaited; ok the
\* await that follows when it resolves; ko the await control continues at
\* when it rejects and an inner catch without setStatus takes the error
\* (0: the catch that sets the status takes it, -1: no catch encloses it);
\* on4902 the same for an error with code 4902; says the status set once it
\* resolved ("" for none); orElse the fallback text of the catch.
Step(op, ok, ko, on4902, says, orElse) ==
  [op |-> op, ok |-> ok, ko |-> ko, on4902 |-> on4902, says |-> says,
   orElse |-> orElse]

Guarded(op, ok, says, orElse) == Step(op, ok, 0, 0, says, orElse)
Local(op, ok, ko) == Step(op, ok, ko, ko, "", "")

switchToMainnetBody(page) ==
  IF page = "dashboard"
  THEN << Step("wallet_switchEthereumChain", 3, 0, 2,
               "Switched to Flare Mainnet", "Failed to switch chain"),
          Guarded("wallet_addEthereumChain", 4,
                  "Added + switched to Flare Mainnet", "Failed to add chain"),
          Guarded("refreshRead", 5, "", "Failed to switch chain"),
          Guarded("refreshRead", 5, "", "Failed to add chain") >>
  ELSE << Step("wallet_switchEthereumChain", 3, 0, 2,
               "Switched to Flare Mainnet", "Failed to switch chain"),
          Guarded("wallet_addEthereumChain", 3,
                  "Added + switched to Flare Mainnet", "Failed to add chain") >>

connectWalletBody ==
  << Guarded("getNetwork", 2, "", "Connect failed"),
     Guarded("eth_requestAccounts", 3, "Connected", "Connect failed"),
     Guarded("refreshRead", 4, "", "Connect failed") >>

refreshReadBody(page) ==
  IF page = "dashboard"
  THEN << Local("totalMinted", 2, 2),
          Local("controller", 3, 3),
          Local("energonHeight", 4, 4),
          Local("secondsUntilNextBlock", 5, 5),
          Local("balanceOf", 6, 6),
          Local("eon.balanceOf", 7, 7),
          Guarded("getNetwork", 8, "", "Unable to read contract") >>
  ELSE << Local("totalMinted", 2, 2),
          Local("priceInFlrWei", 5, 3),
          Local("priceWei", 5, 4),
          Local("price", 5, 5),
          Guarded("getNetwork", 6, "", "Unable to read contract") >>

tickBody(submitted, confirmed) ==
  << Guarded("getSigner", 2, "", "Tick failed"),
     Guarded("controller", 3, "", "Tick failed"),
     Guarded("tickEnergon", 4, submitted, "Tick failed"),
     Guarded("wait", 5, confirmed, "Tick failed"),
     Guarded("refreshRead", 6, "", "Tick failed") >>

mintNowBody ==
  << Guarded("getSigner", 2, "", "Mint failed"),
     Local("mintWithFLR", 4, 3),
     Guarded("mint", 4, "", "Mint failed"),
     Guarded("wait", 5, "Mint confirmed", "Mint failed"),
     Guarded("refreshRead", 6, "", "Mint failed") >>

Body(page, fn) ==
  CASE fn = "switchToMainnet" -> switchToMainnetBody(page)
    [] fn = "connectWallet" -> connectWalletBody
    [] fn = "refreshRead" -> refreshReadBody(page)
    [] fn = "manualTick" -> tickBody("Tick submitted", "Tick confirmed")
    [] fn = "loop" -> tickBody("Auto-tick submitted", "Auto-tick confirmed")
    [] fn = "mintNow" -> mintNowBody

Handlers(page) ==
  IF page = "dashboard"
  THEN {"switchToMainnet", "connectWallet", "refreshRead", "manualTick",
        "loop"}
  ELSE {"switchToMainnet", "connectWallet", "refreshRead", "mintNow"}

\* the handlers that start with if (!window.ethereum) setStatus(...)
WalletGuarded == {"switchToMainnet", "connectWallet", "manualTick", "mintNow"}
\* the handlers with a busy flag set in the try and cleared in the finally
WithFinally == {"manualTick", "loop", "mintNow"}

\* the status set on entering the try
entryStatus(fn, was) ==
  CASE fn = "manualTick" -> "Submitting tick"
    [] fn = "loop" -> "Auto-tick: submitting"
    [] fn = "mintNow" -> "Preparing mint"
    [] OTHER -> was

HandlerMounted(page) ==
  [page |-> page,
   status |-> IF page = "dashboard"
              THEN "Ready. (Connect wallet for eligibility + balances)"
              ELSE "Not connected",
   busy |-> FALSE]

NoFailure == [op |-> "none", by |-> "none", code |-> 0]

HandlersIdle ==
  /\ hpage = HandlerMounted("dashboard")
  /\ hstack = << >>
  /\ hend = "none"
  /\ hfail = NoFailure


besidesHandlers ==
  <<tickVars, obsVars, plasmaVars, refreshVars, mintVars, cronVars, tabVars>>

\* window.location = the other page
HandlerNavigate(page) ==
  /\ hstack = << >>
  /\ page # hpage.page
  /\ hpage' = HandlerMounted(page)
  /\ hend' = "none"
  /\ hfail' = NoFailure
  /\ UNCHANGED <<hstack, besidesHandlers>>

\* The await reached from at: refreshRead asks the wallet for its network
\* only if (window.ethereum); the dashboard reads the balances only for an
\* account.
reaches(page, fn, at, acct) ==
  LET body == Body(page, fn)
      skipped(i) ==
        /\ fn = "refreshRead"
        /\ i <= Len(body)
        /\ \/ body[i].op = "getNetwork" /\ ~hasEthereum
           \/ body[i].op \in {"balanceOf", "eon.balanceOf"} /\ ~acct
      first[i \in 1..(Len(body) + 1)] ==
        IF i <= Len(body) /\ skipped(i) THEN first[i + 1] ELSE i
  IN first[at]

\* A handler is called and runs up to its first await.  Without a wallet
\* the guarded handlers set the status and return, the loop returns
\* silently; a later guard of manualTick and mintNow returns with its
\* status, one of the loop silently.
HandlerCall(fn, pass, acct) ==
  /\ hstack = << >>
  /\ ~hpage.busy
  /\ fn \in Handlers(hpage.page)
  /\ hfail' = NoFailure
  /\ IF ~hasEthereum /\ fn \in WalletGuarded
     THEN /\ hpage' = [hpage EXCEPT !.status = "MetaMask not found"]
          /\ hend' = "returned"
          /\ UNCHANGED hstack
     ELSE IF fn = "loop" /\ (~hasEthereum \/ ~pass)
     THEN /\ hend' = "returned"
          /\ UNCHANGED <<hpage, hstack>>
     ELSE IF fn \in {"manualTick", "mintNow"} /\ ~pass
     THEN /\ hpage' = [hpage EXCEPT !.status = "Connect wallet first"]
          /\ hend' = "returned"
          /\ UNCHANGED hstack
     ELSE /\ hpage' = [hpage EXCEPT !.status = entryStatus(fn, @),
                                    !.busy = fn \in WithFinally]
          /\ hstack' =
               << [fn |-> fn, at |-> reaches(hpage.page, fn, 1, acct),
                   acct |-> acct] >>
          /\ hend' = "none"
  /\ UNCHANGED besidesHandlers

Top == hstack[Len(hstack)]
TopStep == Body(hpage.page, Top.fn)[Top.at]
Awaiting == hstack # << >> /\ Top.at <= Len(Body(hpage.page, Top.fn))

\* The stack once the innermost call moved to the await at: a call that
\* ran past its last await returns, and its caller, which awaited it,
\* moves on in turn.
RECURSIVE movedTo(_, _)
movedTo(stack, at) ==
  LET top == stack[Len(stack)]
      to == reaches(hpage.page, top.fn, at, top.acct)
      below == SubSeq(stack, 1, Len(stack) - 1)
  IN IF to <= Len(Body(hpage.page, top.fn))
     THEN Append(below, [top EXCEPT !.at = to])
     ELSE IF below = << >> THEN << >>
     ELSE movedTo(below,
                  Body(hpage.page, below[Len(below)].fn)[below[Len(below)].at].ok)

\* the stack once the innermost call returned from its catch
returned(stack) ==
  LET below == SubSeq(stack, 1, Len(stack) - 1)
  IN IF below = << >> THEN << >>
     ELSE movedTo(below,
                  Body(hpage.page, below[Len(below)].fn)[below[Len(below)].at].ok)

\* the busy flag after the step: the finally of the outermost call ran
\* once nothing is left on the stack
busyAfter(stack) == hpage.busy /\ stack # << >>

\* await refreshRead(...): the callee runs up to its first await
RefreshReadCalled ==
  /\ Awaiting
  /\ TopStep.op = "refreshRead"
  /\ hstack' =
       Append(hstack,
              [fn |-> "refreshRead",
               at |-> reaches(hpage.page, "refreshRead", 1, Top.acct),
               acct |-> Top.acct])
  /\ UNCHANGED <<hpage, hend, hfail, besidesHandlers>>

\* The awaited request, read or send resolves.  connectWallet returns with
\* "Wrong network" when getNetwork answers another chain.
AwaitResolves(wrongChain) ==
  /\ Awaiting
  /\ TopStep.op # "refreshRead"
  /\ IF Top.fn = "connectWallet" /\ TopStep.op = "getNetwork" /\ wrongChain
     THEN /\ hpage' = [hpage EXCEPT !.status = "Wrong network"]
          /\ hstack' = << >>
          /\ hend' = "returned"
     ELSE \E stack \in {movedTo(hstack, TopStep.ok)} :
            /\ hstack' = stack
            /\ hpage' =
                 [hpage EXCEPT
                    !.status = IF TopStep.says = "" THEN @ ELSE TopStep.says,
                    !.busy = busyAfter(stack)]
            /\ hend' = IF stack = << >> THEN "returned" ELSE "none"
  /\ UNCHANGED <<hfail, besidesHandlers>>

\* The awaited request, read or send rejects with an error of the message
\* and code.
AwaitRejects(msg, code) ==
  /\ Awaiting
  /\ TopStep.op # "refreshRead"
  /\ LET to == IF code = UNRECOGNIZED_CHAIN THEN TopStep.on4902
               ELSE TopStep.ko
     IN CASE to > 0 ->
               \E stack \in {movedTo(hstack, to)} :
                 /\ hstack' = stack
                 /\ hpage' = [hpage EXCEPT !.busy = busyAfter(stack)]
                 /\ hend' = IF stack = << >> THEN "returned" ELSE "none"
                 /\ hfail' = [op |-> TopStep.op, by |-> "local",
                              code |-> code]
          [] to = 0 ->
               \E stack \in {returned(hstack)} :
                 /\ hstack' = stack
                 /\ hpage' =
                      [hpage EXCEPT
                         !.status = messageOr(msg, TopStep.orElse),
                         !.busy = busyAfter(stack)]
                 /\ hend' = IF stack = << >> THEN "returned" ELSE "none"
                 /\ hfail' = [op |-> TopStep.op, by |-> "status",
                              code |-> code]
          [] OTHER ->
               /\ hstack' = << >>
               /\ hend' = "unhandled"
               /\ hfail' = [op |-> TopStep.op, by |-> "nobody",
                            code |-> code]
               /\ UNCHANGED hpage
  /\ UNCHANGED besidesHandlers

HandlersNext ==
  \/ \E page \in HandlerPages : HandlerNavigate(page)
  \/ \E fn \in Handlers(hpage.page), pass, acct \in BOOLEAN :
       HandlerCall(fn, pass, acct)
  \/ RefreshReadCalled
  \/ \E wrongChain \in BOOLEAN : AwaitResolves(wrongChain)
  \/ \E msg \in Messages, code \in Codes : AwaitRejects(msg, code)

\* ------------------------------------------------ the one-second poll
\* pages/dashboard.js 600-610: the interval calls refreshRead every second,
\* whatever became of the passes started before.
MaxPolls == 2

\* the interval as it would be if it waited for the pass before
StartPoll_whenIdle ==
  /\ passes = EmptyBag
  /\ passes' = passes (+) SetToBag({FirstRead})
  /\ UNCHANGED <<chainHeight, chainSeconds, hasEthereum, walletChain,
                 energon_tick_lock_until, plasmaStored, account, chainId,
                 status, energonHeight, secondsUntilNext, tickAllowed, plasma,
                 autoTickOn, isTicking, cooldownLeft, backoffRef,
                 lastTickHeightRef, tickPc, tickBy, tickPass,
                 recording, attempted, consecFails>>
  /\ UNCHANGED besidesTick

StartPoll ==
  /\ BagCardinality(passes) < MaxPolls
  /\ passes' = passes (+) SetToBag({FirstRead})
  /\ UNCHANGED <<chainHeight, chainSeconds, hasEthereum, walletChain,
                 energon_tick_lock_until, plasmaStored, account, chainId,
                 status, energonHeight, secondsUntilNext, tickAllowed, plasma,
                 autoTickOn, isTicking, cooldownLeft, backoffRef,
                 lastTickHeightRef, tickPc, tickBy, tickPass,
                 recording, attempted, consecFails>>
  /\ UNCHANGED besidesTick

PollsNext ==
  \/ StartPoll
  \/ PassReadResolves
  \/ PassReadRejects
  \/ ChainWindowOpens
  \/ ChainTicked

\* ------------------------------------------------- tabs sharing the lock
\* pages/dashboard.js 163-184, 462-490, 523-547: the guards and the first
\* synchronous statements of manualTick and loop(), in each of the tabs that
\* share localStorage.  Wallet, account and chain are as the guards want
\* them, the toggle is on; whether the loop's backoff runs is an input.
Tabs == {"A", "B"}

TabMounted ==
  [isTicking |-> FALSE, cooldownLeft |-> 0, lastTickHeightRef |-> NULL,
   energonHeight |-> "-", tickAllowed |-> FALSE]

TabsIdle ==
  /\ tabs = [t \in Tabs |-> TabMounted]
  /\ sinceBegun = NULL

SideIdle == HandlersIdle /\ TabsIdle

\* the handlers' page as mounted
HandlersInit ==
  /\ TickInit
  /\ chainSeconds = 1
  /\ energon_tick_lock_until = 0
  /\ variant = "v1"
  /\ ObserverMount
  /\ MintMount
  /\ SideIdle
  /\ Deployed

besidesTabs ==
  <<chainHeight, chainSeconds, hasEthereum, walletChain, plasmaStored,
    account, chainId, status, energonHeight, secondsUntilNext, tickAllowed,
    plasma, autoTickOn, isTicking, cooldownLeft, backoffRef,
    lastTickHeightRef, tickPc, tickBy, tickPass, passes, recording,
    attempted, consecFails, obsVars, plasmaVars, refreshVars, mintVars,
    cronVars, handlerVars>>

\* the guards of a tab as they would be without isTickLocked()
tabAccepts_ignoringLock(tab, by, backedOff) ==
  /\ ~tab.isTicking
  /\ tab.cooldownLeft = 0
  /\ by = "auto" => ~backedOff
  /\ tab.tickAllowed
  /\ \/ parseHeight(tab.energonHeight) = NULL
     \/ tab.lastTickHeightRef # parseHeight(tab.energonHeight)

\* whether the tab's manualTick (by = "manual") or one firing of its loop
\* (by = "auto") passes every guard
tabAccepts(tab, by, backedOff) ==
  /\ ~tab.isTicking
  /\ tab.cooldownLeft = 0
  /\ ~isTickLocked
  /\ by = "auto" => ~backedOff
  /\ tab.tickAllowed
  /\ \/ parseHeight(tab.energonHeight) = NULL
     \/ tab.lastTickHeightRef # parseHeight(tab.energonHeight)

\* One event-loop turn of the tab t: the guards and, when they pass, the
\* statements up to the first await (setIsTicking, lockTickForAllTabs,
\* setCooldown, markTickHeight).
TabTick(t, by, backedOff) ==
  /\ IF tabAccepts(tabs[t], by, backedOff)
     THEN /\ tabs' =
               [tabs EXCEPT
                  ![t].isTicking = TRUE,
                  ![t].cooldownLeft = setCooldown(COOLDOWN_SECONDS),
                  ![t].lastTickHeightRef =
                     IF parseHeight(tabs[t].energonHeight) = NULL THEN @
                     ELSE parseHeight(tabs[t].energonHeight)]
          /\ energon_tick_lock_until' = lockTickForAllTabs(LOCK_SECONDS)
          /\ sinceBegun' = 0
     ELSE UNCHANGED <<tabs, energon_tick_lock_until, sinceBegun>>
  /\ UNCHANGED besidesTabs

\* the tick of the tab t resolved or rejected: its finally block
TabTickSettles(t) ==
  /\ tabs[t].isTicking
  /\ tabs' = [tabs EXCEPT ![t].isTicking = FALSE]
  /\ UNCHANGED <<energon_tick_lock_until, sinceBegun, besidesTabs>>

\* a refreshRead pass of the tab t wrote the height and tickAllowed
TabPolled(t, h, allowed) ==
  /\ tabs' = [tabs EXCEPT ![t].energonHeight = h, ![t].tickAllowed = allowed]
  /\ UNCHANGED <<energon_tick_lock_until, sinceBegun, besidesTabs>>

\* the tab t is reloaded: its component state is lost, the storage kept
TabReload(t) ==
  /\ tabs' = [tabs EXCEPT ![t] = TabMounted]
  /\ UNCHANGED <<energon_tick_lock_until, sinceBegun, besidesTabs>>

\* d seconds pass in every tab
TabClock(d) ==
  /\ energon_tick_lock_until' = Max(0, energon_tick_lock_until - d * 1000)
  /\ tabs' = [t \in Tabs |->
               [tabs[t] EXCEPT !.cooldownLeft = Max(0, @ - d)]]
  /\ sinceBegun' = IF sinceBegun = NULL THEN NULL
                   ELSE Min(LOCK_SECONDS, sinceBegun + d)
  /\ UNCHANGED besidesTabs

TabsInit ==
  /\ TickInit
  /\ chainSeconds = 1
  /\ hasEthereum
  /\ walletChain = MAINNET_CHAIN_ID
  /\ energon_tick_lock_until = 0
  /\ variant = "v1"
  /\ ObserverMount
  /\ MintMount
  /\ SideIdle
  /\ Deployed

TabClockSteps == {COOLDOWN_SECONDS, LOCK_SECONDS}
ShownHeights == {"-"} \cup {toString(h) : h \in Heights}

TabsNext ==
  \/ \E t \in Tabs, by \in {"manual", "auto"}, backedOff \in BOOLEAN :
       TabTick(t, by, backedOff)
  \/ \E t \in Tabs : TabTickSettles(t)
  \/ \E t \in Tabs, h \in ShownHeights, allowed \in BOOLEAN :
       TabPolled(t, h, allowed)
  \/ \E t \in Tabs : TabReload(t)
  \/ \E d \in TabClockSteps : TabClock(d)

\* ------------------------------------------------ the dashboard reloaded
\* pages/dashboard.js 612-626: chainChanged and accountsChanged call
\* window.location.reload().  The component starts over (86-103): state and
\* refs at their initial values, the awaits of the old page gone with it;
\* localStorage and the chain stay as they are, and so does the history of
\* the attempts the browser made.
DashboardReload ==
  /\ account' = ""
  /\ chainId' = NULL
  /\ status' = "Ready. (Connect wallet for eligibility + balances)"
  /\ energonHeight' = "-"
  /\ secondsUntilNext' = "-"
  /\ tickAllowed' = FALSE
  /\ plasma' = loadPlasmaFromStorage
  /\ energon_plasma_last_ts_v1' = mountPlasmaTs(energon_plasma_last_ts_v1)
  /\ plasmaCall' = NoCall
  /\ autoTickOn' = FALSE
  /\ isTicking' = FALSE
  /\ cooldownLeft' = 0
  /\ backoffRef' = 0
  /\ lastTickHeightRef' = NULL
  /\ tickPc' = "idle"
  /\ tickBy' = "none"
  /\ tickPass' = IdlePass
  /\ passes' = EmptyBag
  /\ consecFails' = 0
  /\ UNCHANGED <<recording, attempted, chainHeight, chainSeconds, hasEthereum,
                 walletChain, energon_tick_lock_until, plasmaStored, saved,
                 obsVars, refreshVars, otherPages>>

\* ---------------------------------------------------------- specifications
\* the dashboard tab (the observer page stays as mounted)
Init ==
  /\ TickInit /\ variant = "v1" /\ ObserverMount /\ MintMount
  /\ SideIdle /\ Deployed

\* the same tab with the history of its attempts recorded
InitRecording ==
  /\ recording = TRUE
  /\ chainHeight = 0
  /\ chainSeconds \in {0, 1}
  /\ hasEthereum = TRUE
  /\ walletChain = MAINNET_CHAIN_ID
  /\ energon_tick_lock_until = 0
  /\ plasmaStored = NoItem
  /\ energon_plasma_last_ts_v1 = mountPlasmaTs(NULL)
  /\ plasmaCall = NoCall
  /\ saved = NULL
  /\ dashboard = "current"
  /\ RefreshMount
  /\ account = ""
  /\ chainId = NULL
  /\ status = "Ready. (Connect wallet for eligibility + balances)"
  /\ energonHeight = "-"
  /\ secondsUntilNext = "-"
  /\ tickAllowed = FALSE
  /\ plasma = loadPlasmaFromStorage
  /\ autoTickOn = FALSE
  /\ isTicking = FALSE
  /\ cooldownLeft = 0
  /\ backoffRef = 0
  /\ lastTickHeightRef = NULL
  /\ tickPc = "idle"
  /\ tickBy = "none"
  /\ tickPass = IdlePass
  /\ passes = EmptyBag
  /\ attempted = {}
  /\ consecFails = 0
  /\ variant = "v1"
  /\ ObserverMount
  /\ MintMount
  /\ SideIdle
  /\ Deployed

Next ==
  \/ ManualTick
  \/ AutoTickLoop
  \/ TickAwaitResolves
  \/ TickConfirmed
  \/ TickFails
  \/ StartPass
  \/ PassReadResolves
  \/ PassReadRejects
  \/ TickPassReadResolves
  \/ TickPassReadRejects
  \/ ConnectWallet
  \/ ToggleAutoTick
  \/ \E d \in ClockSteps : Advance(d)
  \/ ChainWindowOpens
  \/ ChainTicked

Spec == Init /\ [][Next]_vars

SpecRecording == InitRecording /\ [][Next]_vars

\* ------------------------------------------------- plasma accumulation
\* The accumulator alone: the tab's plasma state, its two storage keys and
\* the calls that reach addPlasma (a confirmed manual tick, line 508, and
\* applyAutoPlasma from the totalMinted read of refreshRead, line 384),
\* with page reloads.

\* the items the tab may find under energon_plasma_accumulation_v1
RawItems ==
  {NoItem, <<>>, <<"0">>, <<"9", "5">>, <<"1", "5", "0">>, <<"-", "5">>,
   <<"7", ".", "9">>, <<" ", "4", "2">>, <<"a", "b", "c">>}

\* what totalMinted() may return
MintedCounts == {0, 1, 10, 105}

\* the state the steps of the accumulator leave alone
besidesPlasma ==
  <<chainHeight, chainSeconds, hasEthereum, walletChain,
    energon_tick_lock_until, account, chainId, energonHeight,
    secondsUntilNext, tickAllowed, autoTickOn, isTicking, cooldownLeft,
    backoffRef, lastTickHeightRef, tickPc, tickBy, tickPass, passes,
    recording, attempted, consecFails, obsVars, refreshVars, otherPages>>

\* addPlasma(amount): the setPlasma updater with its storage write and its
\* release message
AddPlasma(amount) ==
  /\ plasma' = addPlasma(plasma, amount)
  /\ plasmaStored' = IF addPlasmaSaves(amount)
                       THEN savePlasmaToStorage(addPlasma(plasma, amount))
                       ELSE plasmaStored
  /\ saved' = IF addPlasmaSaves(amount) THEN addPlasma(plasma, amount) ELSE saved
  /\ plasmaCall' =
       [prev |-> plasma, amount |-> amount,
        releases |-> IF plasmaRelease(plasma, amount) THEN 1 ELSE 0,
        saves |-> IF addPlasmaSaves(amount)
                    THEN <<addPlasma(plasma, amount)>> ELSE <<>>]

\* manualTick after tx.wait(): setStatus("Tick confirmed"), addPlasma(1)
ConfirmedTickCredit ==
  /\ AddPlasma(tickPlasmaCredit("manual"))
  /\ status' = IF plasmaRelease(plasma, tickPlasmaCredit("manual"))
                 THEN "Energon Plasma Release successful"
                 ELSE "Tick confirmed"
  /\ UNCHANGED <<energon_plasma_last_ts_v1, besidesPlasma>>

\* loadLastPlasmaTs() > 0: a timestamp is stored (0 when nothing usable is)
loadLastPlasmaTs == energon_plasma_last_ts_v1 # NULL

\* one window per call, however many elapsed
plasmaSteps_oneWindow ==
  IF energon_plasma_last_ts_v1 >= PLASMA_INTERVAL_MS THEN 1 ELSE 0

\* the whole windows elapsed since the stored timestamp
plasmaSteps == energon_plasma_last_ts_v1 \div PLASMA_INTERVAL_MS

\* applyAutoPlasma(totalMintedNumber): what it does to the accumulator
applyAutoPlasma(totalMintedNumber) ==
  LET minted == clampInt(Num(totalMintedNumber))
      elapsed == IF loadLastPlasmaTs THEN energon_plasma_last_ts_v1 ELSE 0
  IN IF minted <= 0
       THEN UNCHANGED <<plasma, plasmaStored, status, plasmaVars>>
     ELSE IF elapsed < PLASMA_INTERVAL_MS
       THEN /\ energon_plasma_last_ts_v1' =
                 IF ~loadLastPlasmaTs THEN DateNow
                 ELSE energon_plasma_last_ts_v1
            /\ UNCHANGED <<plasma, plasmaStored, status, plasmaCall, saved>>
     ELSE /\ AddPlasma(plasmaSteps * minted)
          /\ status' = IF plasmaRelease(plasma, plasmaSteps * minted)
                         THEN "Energon Plasma Release successful"
                         ELSE status
          /\ energon_plasma_last_ts_v1' =
               elapsed - plasmaSteps * PLASMA_INTERVAL_MS

\* refreshRead's totalMinted read resolves: applyAutoPlasma(Number(tmStr))
ApplyAutoPlasma(totalMintedNumber) ==
  /\ applyAutoPlasma(totalMintedNumber)
  /\ UNCHANGED besidesPlasma

\* the page is reloaded: a new component, its state lost, its storage kept
Reload ==
  /\ plasma' = loadPlasmaFromStorage
  /\ energon_plasma_last_ts_v1' = mountPlasmaTs(energon_plasma_last_ts_v1)
  /\ status' = "Ready. (Connect wallet for eligibility + balances)"
  /\ plasmaCall' = NoCall
  /\ UNCHANGED <<plasmaStored, saved, besidesPlasma>>

\* half a plasma window passes
PlasmaClock ==
  /\ energon_plasma_last_ts_v1 # NULL
  /\ energon_plasma_last_ts_v1 + PLASMA_INTERVAL_MS \div 2
       <= MaxWindows * PLASMA_INTERVAL_MS
  /\ energon_plasma_last_ts_v1' =
       energon_plasma_last_ts_v1 + PLASMA_INTERVAL_MS \div 2
  /\ UNCHANGED <<plasma, plasmaStored, status, plasmaCall, saved, besidesPlasma>>

PlasmaInit ==
  /\ dashboard = "current"
  /\ plasmaStored \in RawItems
  /\ \E stored \in {NULL, 0, PLASMA_INTERVAL_MS} :
       energon_plasma_last_ts_v1 = mountPlasmaTs(stored)
  /\ DashboardMount
  /\ chainSeconds = 1
  /\ hasEthereum
  /\ walletChain = MAINNET_CHAIN_ID
  /\ energon_tick_lock_until = 0
  /\ variant = "v1"
  /\ ObserverMount
  /\ MintMount
  /\ SideIdle
  /\ Deployed

PlasmaNext ==
  \/ ConfirmedTickCredit
  \/ \E n \in MintedCounts : ApplyAutoPlasma(n)
  \/ Reload
  \/ PlasmaClock

SpecPlasma == PlasmaInit /\ [][PlasmaNext]_vars

\* ------------------------------------------------- refreshRead, read by read
\* One pass of refreshRead at a time, with every read of it and every write
\* of its display fields, in the two Dashboards (the tick flow is at rest).

CONTROLLER_ADDRESS_LOCKED == "0xc737bDcA9aFc57a1277480c3DFBF5bdbEcb54BB6"
ZeroAddress == "0x0000000000000000000000000000000000000000"

Dashboards == {"current", "older"}

\* what cube.controller() may return
ControllerAddrs == {"0xC1", ZeroAddress}

\* what the other reads may return
EonUnits == {0, 1}
TokenUris == {"ipfs://cid/1.json"}

\* `Not eligible (${n} Cubes)` and its sibling
eligibleTextOf(n) ==
  IF n = 1 THEN "Eligible (Exactly 1 Cube)"
  ELSE "Not eligible (" \o toString(n) \o " Cubes)"

\* `${ethers.formatUnits(raw, 18)} EON` of a whole number of tokens
eonBalOf(units) == toString(units) \o ".0 EON"

\* the display fields a pass writes, as one record
Fields ==
  [totalMinted |-> totalMinted, controllerAddr |-> controllerAddr,
   energonHeight |-> energonHeight, secondsUntilNext |-> secondsUntilNext,
   tickAllowed |-> tickAllowed, cubeBal |-> cubeBal,
   eligibleText |-> eligibleText, eonBal |-> eonBal,
   tokenUri |-> dashboardTokenUri,
   chainId |-> chainId]

\* the code that runs up to the next await: the fields it leaves and the read
\* it awaits ("idle": the pass is over)
toNetwork(f) == [f |-> f, pc |-> IF hasEthereum THEN "getNetwork" ELSE "idle"]

toWallet(f) ==
  IF account # "" THEN [f |-> f, pc |-> "balanceOf"]
  ELSE IF dashboard = "current"
    THEN toNetwork([f EXCEPT !.cubeBal = "-", !.eligibleText = "-",
                             !.eonBal = "-"])
  ELSE toNetwork(f)

toController(f, ctrl) ==
  IF ctrl # "null" /\ ctrl # ZeroAddress
    THEN [f |-> f, pc |-> "energonHeight"]
  ELSE toWallet([f EXCEPT !.energonHeight = "-", !.secondsUntilNext = "-",
                          !.tickAllowed = IF dashboard = "current"
                                            THEN FALSE ELSE @])

\* the local ctrl after the controller() read: the catch falls back to the
\* locked address in the current Dashboard and to null in the older one
ctrlAfter(ok, out) ==
  IF ok THEN out
  ELSE IF dashboard = "current" THEN CONTROLLER_ADDRESS_LOCKED
  ELSE "null"

\* the catch blocks as they would be if one handler blanked every field
onReadError_shared(read, f) ==
  [f EXCEPT !.totalMinted = "-", !.energonHeight = "-",
            !.secondsUntilNext = "-", !.cubeBal = "-", !.eonBal = "-"]

\* the catch block of each read
onReadError(read, f) ==
  CASE read = "totalMinted" -> [f EXCEPT !.totalMinted = "-"]
    [] read = "controller" ->
         [f EXCEPT !.controllerAddr =
            IF dashboard = "current" THEN CONTROLLER_ADDRESS_LOCKED ELSE "-"]
    [] read = "energonHeight" -> [f EXCEPT !.energonHeight = "-"]
    [] read = "seconds" ->
         [f EXCEPT !.secondsUntilNext = "-",
                   !.tickAllowed = IF dashboard = "current" THEN FALSE ELSE @]
    [] read = "balanceOf" ->
         IF dashboard = "current" THEN f
         ELSE [f EXCEPT !.cubeBal = "-", !.eligibleText = "-"]
    [] read = "tokenURI" -> [f EXCEPT !.tokenUri = "-"]
    [] read = "eon" ->
         IF dashboard = "current" THEN f ELSE [f EXCEPT !.eonBal = "-"]
    [] OTHER -> f

\* the try block of each read after its await returned out
onReadResult(read, out, f) ==
  CASE read = "totalMinted" -> [f EXCEPT !.totalMinted = toString(out)]
    [] read = "controller" -> [f EXCEPT !.controllerAddr = out]
    [] read = "energonHeight" -> [f EXCEPT !.energonHeight = toString(out)]
    [] read = "seconds" ->
         IF dashboard = "current"
           THEN [f EXCEPT !.secondsUntilNext = toString(Number(toString(out))),
                          !.tickAllowed = (Number(toString(out)) = 0)]
           ELSE [f EXCEPT !.secondsUntilNext = toString(out)]
    [] read = "balanceOf" ->
         [f EXCEPT !.cubeBal = toString(Number(toString(out))),
                   !.eligibleText = eligibleTextOf(Number(toString(out)))]
    [] read = "tokenURI" -> [f EXCEPT !.tokenUri = out]
    [] read = "eon" -> [f EXCEPT !.eonBal = eonBalOf(out)]
    [] read = "getNetwork" -> [f EXCEPT !.chainId = out]

\* where the pass goes after a read, with the writes made on the way
afterRead(read, ok, out, f) ==
  CASE read = "totalMinted" -> [f |-> f, pc |-> "controller"]
    [] read = "controller" -> toController(f, ctrlAfter(ok, out))
    [] read = "energonHeight" -> [f |-> f, pc |-> "seconds"]
    [] read = "seconds" -> toWallet(f)
    [] read = "balanceOf" ->
         [f |-> f, pc |-> IF dashboard = "older" THEN "tokenURI" ELSE "eon"]
    [] read = "tokenURI" -> [f |-> f, pc |-> "eon"]
    [] read = "eon" -> toNetwork(f)
    [] read = "getNetwork" -> [f |-> f, pc |-> "idle"]

\* what a read may return
Answers(read) ==
  CASE read = "totalMinted" -> {0, 1}
    [] read = "controller" -> ControllerAddrs
    [] read = "energonHeight" -> Heights
    [] read = "seconds" -> {0, 1}
    [] read = "balanceOf" -> Cubes
    [] read = "tokenURI" -> TokenUris
    [] read = "eon" -> EonUnits
    [] read = "getNetwork" -> WalletChains

Reads ==
  {"totalMinted", "controller", "energonHeight", "seconds", "balanceOf",
   "tokenURI", "eon", "getNetwork"}

\* what the pass remembers of its reads: their results as displayed
gotAfter(read, ok, out) ==
  IF read \in {"totalMinted", "energonHeight"}
    THEN [refresh.got EXCEPT ![read] = IF ok THEN toString(out) ELSE "err"]
  ELSE IF read = "controller"
    THEN [refresh.got EXCEPT ![read] = IF ok THEN out ELSE "err"]
  ELSE refresh.got

\* the state refreshRead does not write
besidesRefresh ==
  <<chainHeight, chainSeconds, hasEthereum, walletChain,
    energon_tick_lock_until, account, autoTickOn, isTicking, cooldownLeft,
    backoffRef, lastTickHeightRef, tickPc, tickBy, tickPass, passes,
    recording, attempted, consecFails, dashboard, obsVars, otherPages>>

\* the periodic refresh calls refreshRead(null, accountRef.current)
StartRefresh ==
  /\ refresh.pc = "idle"
  /\ refresh' = [NoPass EXCEPT !.pc = "totalMinted"]
  /\ UNCHANGED <<totalMinted, controllerAddr, cubeBal, eligibleText, eonBal,
                 dashboardTokenUri, energonHeight, secondsUntilNext, tickAllowed,
                 chainId, status, plasma, plasmaStored, plasmaVars,
                 besidesRefresh>>

\* the awaited read settles (returns out, or throws when not ok) and the pass
\* runs to its next await
ReadSettles(read, ok, out) ==
  LET written == IF ok THEN onReadResult(read, out, Fields)
                 ELSE onReadError(read, Fields)
      then == IF read = "getNetwork" /\ ~ok
                THEN [f |-> Fields, pc |-> "idle"]
                ELSE afterRead(read, ok, out, written)
  IN /\ refresh.pc = read
     /\ totalMinted' = then.f.totalMinted
     /\ controllerAddr' = then.f.controllerAddr
     /\ energonHeight' = then.f.energonHeight
     /\ secondsUntilNext' = then.f.secondsUntilNext
     /\ tickAllowed' = then.f.tickAllowed
     /\ cubeBal' = then.f.cubeBal
     /\ eligibleText' = then.f.eligibleText
     /\ eonBal' = then.f.eonBal
     /\ dashboardTokenUri' = then.f.tokenUri
     /\ chainId' = then.f.chainId
     /\ refresh' = [pc |-> then.pc,
                    ctrl |-> IF read = "controller" THEN ctrlAfter(ok, out)
                             ELSE refresh.ctrl,
                    got |-> gotAfter(read, ok, out)]
     /\ IF read = "totalMinted" /\ ok /\ dashboard = "current"
          THEN applyAutoPlasma(Number(toString(out)))
        ELSE IF read = "getNetwork" /\ ~ok
          THEN /\ status' = "could not detect network"
               /\ UNCHANGED <<plasma, plasmaStored, plasmaVars>>
        ELSE UNCHANGED <<status, plasma, plasmaStored, plasmaVars>>
     /\ UNCHANGED besidesRefresh

ReadResolves ==
  /\ refresh.pc # "idle"
  /\ \E out \in Answers(refresh.pc) : ReadSettles(refresh.pc, TRUE, out)

ReadRejects ==
  /\ refresh.pc # "idle"
  /\ ReadSettles(refresh.pc, FALSE, NULL)

RefreshInit ==
  /\ dashboard \in Dashboards
  /\ plasmaStored = NoItem
  /\ energon_plasma_last_ts_v1 = mountPlasmaTs(NULL)
  /\ DashboardMount
  /\ chainSeconds = 1
  /\ walletChain = MAINNET_CHAIN_ID
  /\ energon_tick_lock_until = 0
  /\ variant = "v1"
  /\ ObserverMount
  /\ MintMount
  /\ SideIdle
  /\ Deployed

\* the wallet connects between two passes: setAccount(a)
RefreshConnect ==
  /\ refresh.pc = "idle"
  /\ hasEthereum
  /\ account = ""
  /\ account' = Addr
  /\ UNCHANGED <<chainHeight, chainSeconds, hasEthereum, walletChain,
                 energon_tick_lock_until, autoTickOn, isTicking, cooldownLeft,
                 backoffRef, lastTickHeightRef, tickPc, tickBy, tickPass,
                 passes, recording, attempted, consecFails, dashboard, obsVars,
                 otherPages,
                 totalMinted, controllerAddr, cubeBal, eligibleText, eonBal,
                 dashboardTokenUri, energonHeight, secondsUntilNext, tickAllowed,
                 chainId, status, plasma, plasmaStored, plasmaVars, refresh>>

RefreshNext ==
  \/ StartRefresh
  \/ ReadResolves
  \/ ReadRejects
  \/ RefreshConnect

SpecRefresh == RefreshInit /\ [][RefreshNext]_vars

\* the observer page (the dashboard tab stays as loaded)
ObserverInit ==
  /\ TickInit
  /\ chainSeconds = 1
  /\ hasEthereum
  /\ walletChain = MAINNET_CHAIN_ID
  /\ energon_tick_lock_until = 0
  /\ variant \in Variants
  /\ ObserverMount
  /\ MintMount
  /\ SideIdle
  /\ Deployed

ObserverNext ==
  \/ \E a \in WalletAddrs : Connect(a)
  \/ Disconnect
  \/ \E a \in WalletAddrs : AccountChanged(a)
  \/ \E n \in Cubes : CubeCountResolves(n)
  \/ \E t \in TokenIds \cup {NULL} : TokenOfOwnerByIndexSettles(t)
  \/ \E typed \in TypedInputs : TypeTokenId(typed)
  \/ \E owner \in OwnerAddrs \cup {<<>>} : OwnerOfSettles(owner)
  \/ OwnerOfFails
  \/ OnBlockNumber

SpecObserver == ObserverInit /\ [][ObserverNext]_vars

\* ===================================================== dashboard: properties
\* a guard evaluation (of manualTick or of the loop) is accepted
TickAccepted == tickPc = "idle" /\ tickPc' = "getSigner"

\* an await of the tick in flight rejects and the catch block runs
FailStep ==
  tickPc \in {"getSigner", "controller", "tickEnergon", "wait"} /\ tickPc' = "idle"

\* tx.wait() resolves
ConfirmStep == tickPc = "wait" /\ tickPc' = "refreshRead"

\* the displayed height is a number equal to the height last attempted
DisplayedIsLastTicked ==
  parseHeight(energonHeight) # NULL /\ parseHeight(energonHeight) = lastTickHeightRef

\* C1: within one page lifetime the tab makes at most one attempt per height
\* h: no guard evaluation is accepted at a displayed height at which an
\* attempt was already made.
C1_OneAttemptPerHeight ==
  [][TickAccepted => parseHeight(energonHeight) \notin attempted]_vars

RECURSIVE Doubled(_, _)
Doubled(n, k) == IF k <= 1 THEN n ELSE Doubled(2 * n, k - 1)

ExpectedBackoff(k) == Min(Doubled(15000, k), 120000)

\* C4: the k-th consecutive failure leaves the k-th value of the sequence
\* 15000, 30000, 60000, 120000, 120000, ... in the backoff, and a confirmed
\* tick resets it to 0.
C4_BackoffSequence ==
  [][/\ FailStep => backoffRef' = ExpectedBackoff(consecFails')
     /\ ConfirmStep => backoffRef' = 0]_vars

\* the ELIGIBLE state of the guardrail but for the backoff
EligibleButBackoff ==
  /\ secondsUntilNext = "0"
  /\ tickAllowed
  /\ ~DisplayedIsLastTicked
  /\ ~isTickLocked
  /\ cooldownLeft = 0

C6_SameGuardSamePath ==
  /\ autoTickOn => ((manualTickVerdict = "accept") <=> autoTickAccepts)
  /\ tickPc = "wait" => tickPlasmaCredit(tickBy) = tickPlasmaCredit("manual")

\* C6: with the toggle on the loop accepts exactly when manualTick accepts
\* and the backoff is 0; acceptance and failure write the same state for
\* both (but for the status text), and so does success, except that only a
\* manual tick credits the plasma accumulator.
C6_SameButBackoffAndPlasma ==
  [][/\ autoTickOn =>
          (autoTickAccepts <=> (manualTickVerdict = "accept" /\ backoffRef = 0))
     /\ TickAccepted =>
          /\ isTicking'
          /\ energon_tick_lock_until' = DateNow + LOCK_SECONDS * 1000
          /\ cooldownLeft' = COOLDOWN_SECONDS
          /\ lastTickHeightRef' = (IF parseHeight(energonHeight) = NULL
                                     THEN lastTickHeightRef
                                     ELSE parseHeight(energonHeight))
          /\ UNCHANGED <<backoffRef, plasma, plasmaStored, energonHeight,
                         secondsUntilNext, tickAllowed, autoTickOn>>
     /\ FailStep =>
          /\ ~isTicking'
          /\ backoffRef' = (IF backoffRef = 0 THEN BACKOFF_START
                            ELSE Min(2 * backoffRef, BACKOFF_CAP))
          /\ UNCHANGED <<energon_tick_lock_until, cooldownLeft,
                         lastTickHeightRef, plasma, plasmaStored>>
     /\ ConfirmStep =>
          /\ backoffRef' = 0
          /\ isTicking'
          /\ plasma' = (IF tickBy = "manual" THEN (plasma + 1) % PLASMA_MAX
                        ELSE plasma)
          /\ UNCHANGED <<energon_tick_lock_until, cooldownLeft,
                         lastTickHeightRef>>]_vars

\* C6 witness: with the toggle on and the backoff running manualTick would
\* accept and the loop would not.
C6_Witness ==
  /\ autoTickOn
  /\ backoffRef > 0
  /\ manualTickVerdict = "accept"
  /\ ~autoTickAccepts

\* C7: a failed attempt at a known height h raises the backoff, sets the
\* status and clears isTicking; lastTickHeightRef stays h and the lock and
\* the cooldown stay as written; no evaluation is accepted while the height
\* displayed is the height last attempted.
C7_FailureKeepsHeight ==
  [][/\ FailStep =>
          /\ status' \in {"Tick failed", "Auto-tick failed"}
          /\ backoffRef' > backoffRef \/ backoffRef' = BACKOFF_CAP
          /\ ~isTicking'
          /\ UNCHANGED <<lastTickHeightRef, energon_tick_lock_until,
                         cooldownLeft, energonHeight, secondsUntilNext,
                         tickAllowed, plasma, autoTickOn, account, chainId>>
     /\ TickAccepted => ~DisplayedIsLastTicked]_vars

\* C7 witness: after a failure the lock and the cooldown have run out and the
\* window is open, and the height guard alone rejects manualTick.
C7_Witness ==
  /\ status = "Tick failed"
  /\ backoffRef = BACKOFF_START
  /\ ~isTickLocked /\ cooldownLeft = 0 /\ tickAllowed
  /\ DisplayedIsLastTicked
  /\ manualTickVerdict =
       "Already ticked at this height. Waiting for height to change"

\* ====================================================== observer: properties
\* the account an address denotes: the values of its hex digits
HexValue(c) ==
  CASE c \in {"a", "A"} -> 10 [] c \in {"b", "B"} -> 11 [] c \in {"c", "C"} -> 12
    [] c \in {"d", "D"} -> 13 [] c \in {"e", "E"} -> 14 [] c \in {"f", "F"} -> 15
    [] OTHER -> Number(c)

AccountOf(a) == [i \in 1..Len(a) |-> HexValue(a[i])]

\* the balance the page has read (0 until balanceOf has resolved)
BalanceRead == IF cubeCount.status = "success" THEN cubeCount.data ELSE 0

\* C8: mode is determined by isConnected and the cube balance read: not
\* connected gives DISCONNECTED for every balance, connected gives SILENT
\* for 0, COHERENT for 1 and FRACTURED for more than 1.
C8_ModeTable ==
  /\ ~isConnected => mode = "DISCONNECTED"
  /\ (isConnected /\ BalanceRead = 0) => mode = "SILENT"
  /\ (isConnected /\ BalanceRead = 1) => mode = "COHERENT"
  /\ (isConnected /\ BalanceRead > 1) => mode = "FRACTURED"

\* C8 witness: connected, balanceOf has resolved to more than one cube.
C8_Witness ==
  /\ isConnected
  /\ cubeCount.status = "success"
  /\ cubeCount.data > 1
  /\ mode = "FRACTURED"

\* C9: ownership.ok (status OWNED, derivedTokenId not null, isBound) only if
\* the ownerOf read of the current candidateTokenId has succeeded with the
\* account of the connected address; in mode COHERENT with balance 1 and an
\* ownerOf result of another account, ok is false, the status is NOT_OWNED
\* and isBound is false.
C9_OwnedOnlyIfOwnerIsAddress ==
  /\ (ownership.ok \/ ownership.status = "OWNED" \/ derivedTokenId # NULL \/ isBound) =>
       /\ candidateTokenId # NULL
       /\ ownerOfRead.key = candidateTokenId
       /\ ownerOfRead.status = "success"
       /\ address # <<>>
       /\ AccountOf(ownerOfRead.data) = AccountOf(address)
       /\ ownership.ok /\ ownership.status = "OWNED"
  /\ (/\ mode = "COHERENT" /\ BalanceRead = 1
      /\ candidateTokenId # NULL
      /\ ownerOfRead.status = "success"
      /\ AccountOf(ownerOfRead.data) # AccountOf(address)) =>
       /\ ~ownership.ok
       /\ ownership.status = "NOT_OWNED"
       /\ ~isBound

\* C9 witness: COHERENT with balance 1, ownerOf(candidate) has resolved to
\* another account: NOT_OWNED.
C9_Witness ==
  /\ mode = "COHERENT" /\ BalanceRead = 1
  /\ candidateTokenId # NULL
  /\ ownerOfRead.status = "success"
  /\ AccountOf(ownerOfRead.data) # AccountOf(address)
  /\ ownership.status = "NOT_OWNED"

\* Bound: connected, mode COHERENT and ownership status OWNED
Bound == isConnected /\ mode = "COHERENT" /\ ownership.status = "OWNED"

\* C10: in every version of the page a block event raises beat only while
\* Bound, and the starfield and sparks are rendered only while Bound.
C10_BeatOnlyWhenBound ==
  [][/\ beat' > beat => Bound
     /\ starfieldEnabled => Bound]_vars

\* ------------------------------------------------- observer with metadata
\* The observer page with the tokenURI read and the metadata fetch, on the
\* tokens 1 and 7.

MetaTokenIds == {1, 7}

\* the wallet, and the owners ownerOf may return: the wallet in another
\* case, and another account
MetaWallet == <<"A", "b">>
MetaOwners == {<<"a", "b">>, <<"C", "d">>}

\* tokenURI(t)
UriOf(t) == <<"ipfs://", "bafy", "/", toString(t), ".json">>

\* the metadata json of a token
JsonOf(t) ==
  IF t = 7
    THEN [attributes |-> <<[trait_type |-> "Rarity Tier", value |-> "Rare"]>>]
    ELSE [attributes |-> <<[trait_type |-> "Rarity Tier", value |-> "Epic"],
                           [trait_type |-> "Core", value |-> "Plasma"]>>]

MetadataInit ==
  /\ TickInit
  /\ chainSeconds = 1
  /\ hasEthereum
  /\ walletChain = MAINNET_CHAIN_ID
  /\ energon_tick_lock_until = 0
  /\ variant \in Variants
  /\ ObserverMount
  /\ MintMount
  /\ SideIdle
  /\ Deployed

MetadataNext ==
  \/ Connect(MetaWallet)
  \/ Disconnect
  \/ \E n \in {1, 2} : CubeCountResolves(n)
  \/ \E t \in MetaTokenIds \cup {NULL} : TokenOfOwnerByIndexSettles(t)
  \/ \E t \in MetaTokenIds : TypeTokenId(<<toString(t)>>)
  \/ \E owner \in MetaOwners \cup {<<>>} : OwnerOfSettles(owner)
  \/ \E t \in MetaTokenIds : tokenUriRead.key = t /\ TokenUriSettles(UriOf(t))
  \/ TokenUriSettles(<<>>)
  \/ \E f \in fetches : FetchResolves(f, JsonOf(TokenOfUrl(f.url)))
  \/ \E f \in fetches : FetchFails(f)
  \/ Remount

SpecMetadata == MetadataInit /\ [][MetadataNext]_vars

\* --------------------------------------------------------------- mint page
MintInit ==
  /\ TickInit
  /\ chainSeconds = 1
  /\ energon_tick_lock_until = 0
  /\ variant = "v1"
  /\ ObserverMount
  /\ MintMount
  /\ SideIdle
  /\ Deployed

MintNext ==
  \/ \E price \in MintPrices \cup {NULL} : MintRefreshRead(price)
  \/ \E price \in MintPrices \cup {NULL} : MintConnectWallet(price)
  \/ \E typed \in QtyInputs : SetQty(typed)
  \/ \E c \in WalletChains : MintChainChanged(c)
  \/ MintReload
  \/ MintNow
  \/ \E ok \in BOOLEAN : GetSignerSettles(ok)
  \/ \E ok \in BOOLEAN : MintCallSettles(ok)
  \/ \E ok \in BOOLEAN, price \in MintPrices \cup {NULL} :
       MintWaitSettles(ok, price)

SpecMint == MintInit /\ [][MintNext]_vars

\* ------------------------------------------------------- server tick (cron)
\* the server deployed with each of its variables set, empty or not set
CronInit ==
  /\ TickInit
  /\ chainSeconds = 1
  /\ hasEthereum
  /\ walletChain = MAINNET_CHAIN_ID
  /\ energon_tick_lock_until = 0
  /\ variant = "v1"
  /\ ObserverMount
  /\ MintMount
  /\ SideIdle
  /\ processEnv \in [CRON_SECRET : {Undefined} \cup Secrets,
                     FLARE_RPC_URL : {Undefined, <<"u">>},
                     TICK_PRIVATE_KEY : {Undefined, <<"k">>}]
  /\ req = NoReq
  /\ handlerPc = "idle"
  /\ res = NoRes
  /\ signed = FALSE

CronNext ==
  \/ \E method \in Methods, secret \in Secrets \cup {Undefined} :
       Handle(method, secret)
  \/ \E ok \in BOOLEAN : TickEnergonSettles(ok)
  \/ \E ok \in BOOLEAN : ReceiptSettles(ok)
  \/ \E ok \in BOOLEAN, height \in Heights : HeightSettles(ok, height)

SpecCron == CronInit /\ [][CronNext]_vars

\* the async handlers of the two pages, await by await
SpecHandlers == HandlersInit /\ [][HandlersNext]_vars

\* the dashboard tab's poll alone, its passes overlapping
SpecPolls == Init /\ [][PollsNext]_vars

\* two dashboard tabs of one browser (the tab of the tick flow stays as
\* mounted)
SpecTabs == TabsInit /\ [][TabsNext]_vars

\* the dashboard tab with its attempts recorded, across reloads
ReloadNext == Next \/ DashboardReload

SpecReload == InitRecording /\ [][ReloadNext]_vars

\* The dashboard tab with its timers scheduled fairly, on a chain whose
\* reads all answer: the 6 s interval of the loop fires, the countdowns
\* and the lock run down, the 1 s poll starts its passes and their reads
\* resolve.  Nothing makes the wallet or the network answer a tick in
\* flight: getSigner(), tickEnergon() and tx.wait() are awaited without a
\* timeout.
LiveNext ==
  \/ ManualTick
  \/ AutoTickLoop
  \/ TickAwaitResolves
  \/ TickConfirmed
  \/ TickFails
  \/ StartPass
  \/ PassReadResolves
  \/ TickPassReadResolves
  \/ ConnectWallet
  \/ ToggleAutoTick
  \/ \E d \in ClockSteps : Advance(d)
  \/ ChainWindowOpens
  \/ ChainTicked

TimersFair ==
  /\ WF_vars(AutoTickLoop)
  /\ WF_vars(\E d \in ClockSteps : Advance(d))
  /\ WF_vars(StartPass)
  /\ WF_vars(PassReadResolves)
  /\ WF_vars(TickPassReadResolves)

SpecLive == InitRecording /\ [][LiveNext]_vars /\ TimersFair

\* the same with every tick in flight settled by the wallet and the network
TicksSettle == WF_vars(TickAwaitResolves \/ TickConfirmed \/ TickFails)

SpecLiveSettling == SpecLive /\ TicksSettle

\* ------------------------------------------------- plasma: properties
InRange(n) == n \in 0..(PLASMA_MAX - 1)

\* the item is the decimal numeral of n, without sign, blanks or leading zeros
IsNumeral(item, n) ==
  /\ IsDigits(item)
  /\ BigInt(item) = n
  /\ Len(item) = (IF n < 10 THEN 1 ELSE IF n < 100 THEN 2 ELSE 3)

FieldReads ==
  {"totalMinted", "energonHeight", "seconds", "balanceOf", "tokenURI", "eon"}

OwnFields(read) ==
  CASE read = "totalMinted" -> {"totalMinted"}
    [] read = "energonHeight" -> {"energonHeight"}
    [] read = "seconds" -> {"secondsUntilNext", "tickAllowed"}
    [] read = "balanceOf" -> {"cubeBal", "eligibleText"}
    [] read = "tokenURI" -> {"tokenUri"}
    [] read = "eon" -> {"eonBal"}

Sentinel(field) == IF field = "tickAllowed" THEN FALSE ELSE "-"

\* the display value of a read of the pass: what it returned, "-" if it threw
Shown(got) == IF got = "err" THEN "-" ELSE got

C14_ControllerFirstThenFallback ==
  /\ [](refresh.pc \in {"energonHeight", "seconds"} =>
          refresh.got.controller # "none")
  /\ [][/\ ReadSettles("controller", FALSE, NULL) =>
             /\ refresh'.ctrl = CONTROLLER_ADDRESS_LOCKED
             /\ refresh'.pc = "energonHeight"
             /\ UNCHANGED <<energonHeight, secondsUntilNext>>
        /\ (refresh.pc = "energonHeight" /\ refresh'.pc # "energonHeight") =>
             refresh'.pc = "seconds"]_vars

\* ------------------------------------------------- observer: ownerOf
\* C15: ownerOf is attempted only while connected, in mode COHERENT and with
\* a candidate token id; a revert of ownerOf gives status NOT_MINTED with
\* ok = false, a network error does not give NOT_MINTED, and the status is
\* always one of the five of the page.
C15_RevertIsNotNetworkError ==
  /\ ownerOfRead.status # "pending" =>
       isConnected /\ mode = "COHERENT" /\ candidateTokenId # NULL
  /\ ownerOfRead.error = "revert" =>
       ownership.status = "NOT_MINTED" /\ ~ownership.ok
  /\ ownerOfRead.error = "network" => ownership.status # "NOT_MINTED"
  /\ ownership.status \in {"IDLE", "CHECKING", "NOT_MINTED", "OWNED", "NOT_OWNED"}

\* ------------------------------------------------- observer: candidate id
\* the input without its leading and trailing blanks
TypedId ==
  LET inked == {i \in 1..Len(manualTokenId) : manualTokenId[i] # " "}
  IN IF inked = {} THEN <<>>
     ELSE SubSeq(manualTokenId,
                 CHOOSE i \in inked : \A j \in inked : i <= j,
                 CHOOSE i \in inked : \A j \in inked : j <= i)

TypedIsDigits ==
  /\ TypedId # <<>>
  /\ \A i \in 1..Len(TypedId) :
       TypedId[i] \in {"0", "1", "2", "3", "4", "5", "6", "7", "8", "9"}

\* the number a string of digits denotes, digit by digit from the left
PlaceValue(str) ==
  LET upTo[i \in 0..Len(str)] ==
        IF i = 0 THEN 0
        ELSE 10 * upTo[i - 1]
               + (CHOOSE d \in 0..9 : Digits[d + 1] = str[i])
  IN upTo[Len(str)]

Enumerated ==
  tokenOfOwnerByIndex.status = "success" /\ tokenOfOwnerByIndex.data # NULL

\* C16: the candidate token id is (1) the trimmed manual input when it is
\* non-empty and digits-only, else (2) the id a successful
\* tokenOfOwnerByIndex(owner, 0) returned, else (3) none; outside mode
\* COHERENT it is none, and an input that is not digits-only is never the
\* candidate.
C16_CandidateOrder ==
  /\ mode # "COHERENT" => candidateTokenId = NULL
  /\ mode = "COHERENT" =>
       candidateTokenId =
         (IF TypedIsDigits THEN PlaceValue(TypedId)
          ELSE IF Enumerated THEN tokenOfOwnerByIndex.data
          ELSE NULL)
  /\ (~TypedIsDigits /\ ~Enumerated) => candidateTokenId = NULL

\* the typed id wins over a different enumerated id
C16_Witness ==
  /\ mode = "COHERENT"
  /\ TypedIsDigits
  /\ Enumerated
  /\ tokenOfOwnerByIndex.data # PlaceValue(TypedId)
  /\ candidateTokenId = PlaceValue(TypedId)

\* a typed input that is not digits-only leaves the enumerated id
C16_WitnessNonDigit ==
  /\ mode = "COHERENT"
  /\ manualTokenId = <<"1", "x">>
  /\ Enumerated
  /\ candidateTokenId = tokenOfOwnerByIndex.data

\* ------------------------------------------------- metadata: properties
\* the scenario's stages, each the state after one of its events
Untyped == manualTokenId = <<>> /\ ~manualTouched

AtDisconnected == ~isConnected

AtConnected ==
  /\ isConnected /\ address = MetaWallet /\ cubeCount = NoData /\ Untyped

AtBalanceOne ==
  /\ isConnected /\ address = MetaWallet
  /\ cubeCount = [status |-> "success", data |-> 1]
  /\ tokenOfOwnerByIndex = NoData
  /\ Untyped

AtEnumerated ==
  /\ isConnected /\ address = MetaWallet
  /\ cubeCount = [status |-> "success", data |-> 1]
  /\ tokenOfOwnerByIndex = [status |-> "success", data |-> 7]
  /\ candidateTokenId = 7
  /\ ownerOfRead = NoOwner(7)

AtUri ==
  /\ tokenUri = UriOf(7)
  /\ mode = "COHERENT" /\ derivedTokenId = 7

Coherent7Rare ==
  /\ mode = "COHERENT"
  /\ ownership.ok /\ ownership.status = "OWNED"
  /\ derivedTokenId = 7
  /\ shownRarity = "Rare"

\* C17: from the disconnected state, connect, balanceOf = 1,
\* tokenOfOwnerByIndex = 7, ownerOf(7) = the address, tokenURI(7) =
\* ipfs://bafy/7.json and the metadata json with Rarity Tier Rare lead, event
\* by event, to mode COHERENT, ownership ok and OWNED, and the rarity text
\* "Rare"; and whenever the bound token is 1 the rarity text is "Genesis",
\* whatever the metadata says.
C17_ScenarioEndsRare ==
  /\ [](derivedTokenId = 1 => shownRarity = "Genesis")
  /\ [][/\ AtDisconnected /\ Connect(MetaWallet) => AtConnected'
        /\ AtConnected /\ CubeCountResolves(1) => AtBalanceOne'
        /\ AtBalanceOne /\ TokenOfOwnerByIndexSettles(7)
             => AtEnumerated' /\ manualTokenId' = <<"7">>
        /\ AtEnumerated /\ (\E o \in MetaOwners : sameAddr(o, address)
                                                  /\ OwnerOfSettles(o))
             => /\ ownership'.ok /\ ownership'.status = "OWNED"
                /\ derivedTokenId' = 7
                /\ tokenUriRead' = NoUri(7)
        /\ AtEnumerated /\ ownership.ok /\ TokenUriSettles(UriOf(7))
             => /\ AtUri'
                /\ \E f \in fetches' :
                     f.alive /\ f.url = ipfsToHttps(UriOf(7))
        /\ AtUri /\ (\E f \in fetches :
                       /\ f.alive /\ f.url = ipfsToHttps(UriOf(7))
                       /\ FetchResolves(f, JsonOf(7)))
             => Coherent7Rare'
       ]_vars

\* the scenario's last state, the metadata of token 7 on display
C17_Witness ==
  /\ Coherent7Rare
  /\ meta = <<JsonOf(7)>>
  /\ manualTokenId = <<"7">> /\ ~manualTouched
  /\ address = MetaWallet

\* token 1 bound with metadata whose Rarity Tier is "Epic"
C17_WitnessGenesis ==
  /\ derivedTokenId = 1
  /\ meta = <<JsonOf(1)>>
  /\ rarityTier = "Epic"
  /\ shownRarity = "Genesis"

\* a request of fetch f settles in this step: f leaves the requests in
\* flight, or moves on to its next gateway, and nothing is rendered anew
Settles(f) ==
  /\ f \in fetches
  /\ fetches' \in {fetches \ {f},
                   (fetches \ {f}) \cup {[f EXCEPT !.gateway = f.gateway + 1]}}
  /\ fetches' # fetches
  /\ UNCHANGED <<isConnected, address, cubeCount, tokenOfOwnerByIndex,
                 ownerOfRead, manualTokenId, manualTouched, tokenUriRead,
                 tokenUri>>

\* the fetch was started by the effect run of the current mode,
\* derivedTokenId and tokenUri
StartedLast(f) ==
  /\ mode = "COHERENT" /\ derivedTokenId \notin {NULL, 0}
  /\ tokenUri # <<>>
  /\ f.url = ipfsToHttps(tokenUri)

Written == <<meta, metaErr, loadingMeta>>' # <<meta, metaErr, loadingMeta>>

\* C20: a metadata fetch whose effect was cleaned up (mode, derivedTokenId
\* or tokenUri changed, or the page unmounted) writes none of meta, metaErr
\* and loadingMeta when it settles; a fetch that writes is the only one not
\* cleaned up, the one started by the latest run of the effect; and a change
\* of mode, derivedTokenId or tokenUri leaves no earlier fetch able to write.
C20_OnlyLatestFetchWrites ==
  /\ [](\A f, g \in fetches : f.alive /\ g.alive => f = g /\ StartedLast(f))
  /\ [][/\ \A f \in fetches : Settles(f) /\ ~f.alive => ~Written
        /\ \A f \in fetches : Settles(f) /\ Written => f.alive
        /\ <<mode, derivedTokenId, tokenUri>>' # <<mode, derivedTokenId, tokenUri>>
             => \A f \in fetches' : f.alive => f.gateway = 1 /\ StartedLast(f)'
       ]_vars

\* a fetch was started, cleaned up when the token id changed, and has
\* settled since: nothing was written, loadingMeta is as the fetch's start
\* left it
C20_Witness ==
  /\ isConnected /\ mode = "COHERENT"
  /\ fetches = {}
  /\ loadingMeta
  /\ meta = <<>> /\ metaErr = ""

\* ------------------------------------------------------- mint: properties
\* the four conditions, on the state the click reads
MintGuards ==
  /\ hasEthereum
  /\ mintPage.account # ""
  /\ mintPage.chainId = MAINNET_CHAIN_ID
  /\ mintPage.priceWei # NULL

MintRejections ==
  {"MetaMask not found", "Connect wallet first",
   "Wrong network. Switch to Flare Mainnet.", "Price not loaded yet"}

\* the quantity for an input that is empty or an integer numeral
ExpectedQty(typed) ==
  IF typed = <<>> THEN 1
  ELSE IF Head(typed) = "-" THEN 1
  ELSE Max(1, Min(25, PlaceValue(typed)))

IntegerTyped(typed) == \A i \in 1..Len(typed) : typed[i] # "."

\* a call of mintWithFLR or mint is made in this step
CallMade ==
  \/ sent' # sent
  \/ mintRun'.pc \in {"mintWithFLR", "mint"} /\ mintRun'.pc # mintRun.pc

\* The part of C18 about the calls made: a mintNow call goes beyond its
\* guards only with a wallet injected, an account connected, chainId equal
\* to MAINNET_CHAIN_ID and a price loaded, and then with q the integer input
\* clamped to 1..25; every call of mintWithFLR or mint is made by such a
\* mintNow call, with that q, an integer of 1..25, and value = price * q; a
\* click with a condition unmet makes no call and sets one of the four
\* status strings.
MintCallsGuardedAndClamped ==
  [][/\ mintRun.pc = "idle" /\ mintRun'.pc # "idle"
          => /\ MintGuards
             /\ mintRun'.price = mintPage.priceWei
             /\ IntegerTyped(mintPage.qty)
                  => mintRun'.q = Num(ExpectedQty(mintPage.qty))
     /\ CallMade
          => /\ mintRun.pc # "idle"
             /\ sent'.fn = mintRun'.pc
             /\ sent'.q = mintRun.q
             /\ isInteger(sent'.q) /\ floor(sent'.q) \in 1..25
             /\ sent'.value = mintRun.price * floor(sent'.q)
     /\ MintNow /\ ~MintGuards
          => /\ ~CallMade
             /\ mintRun'.pc = "idle"
             /\ mintPage'.status \in MintRejections
             /\ mintPage'.status = mintNowVerdict
    ]_vars

\* C18: mintNow sends a mint transaction only with a wallet injected, an
\* account connected, the expected chain id and a price loaded; for every
\* value of the quantity input the quantity of the mintNow call that
\* passed the guards is an integer of 1..25 and the value sent is
\* price * quantity; otherwise no transaction is sent and a status string
\* is set.
C18_MintOnlyGuardedAndClamped ==
  /\ MintCallsGuardedAndClamped
  /\ [][mintRun.pc = "idle" /\ mintRun'.pc # "idle"
          => isInteger(mintRun'.q) /\ floor(mintRun'.q) \in 1..25]_vars

\* 26 typed at a price of 5: mintWithFLR(25) was called with value 125 and
\* threw, mint(25) is called with the same value
C18_Witness ==
  /\ mintPage.qty = <<"2", "6">>
  /\ mintRun.pc = "mint"
  /\ sent = [fn |-> "mint", q |-> Num(25), value |-> 125]

\* a click rejected for the wrong network
C18_WitnessRejected ==
  /\ mintPage.status = "Wrong network. Switch to Flare Mainnet."
  /\ mintPage.account # ""
  /\ sent = NoTx

\* ------------------------------------------------- server tick: properties
\* the request r is a GET with a non-empty x-cron-secret equal to the
\* configured CRON_SECRET
Authorised(r) ==
  /\ r.method = "GET"
  /\ r.secret # Undefined
  /\ Len(r.secret) > 0
  /\ processEnv.CRON_SECRET # Undefined
  /\ r.secret = processEnv.CRON_SECRET

\* the handler takes a request in this step
Taken ==
  /\ handlerPc = "idle"
  /\ req' # NoReq
  /\ <<req, res, handlerPc>>' # <<req, res, handlerPc>>

\* the handler answers in this step
Answered == handlerPc' = "idle" /\ res' # NoRes /\ (Taken \/ handlerPc # "idle")

\* C19: the handler calls tickEnergon only for a GET request whose
\* x-cron-secret is non-empty and equal to CRON_SECRET; a non-GET request is
\* answered 405, a GET with a missing, empty or wrong secret (CRON_SECRET
\* unset included) 401, both without a transaction; the answer after the
\* tick went through is 200 {ok: true, tx, blockNumber, energonHeight} and
\* the answer to any error is 500 {ok: false, error}.
C19_OnlyAuthorisedGetTicks ==
  /\ [](signed => Authorised(req))
  /\ [](res.status = 200 => signed /\ handlerPc = "idle")
  /\ [][/\ Taken /\ req'.method # "GET"
             => res'.status = 405 /\ ~signed' /\ handlerPc' = "idle"
        /\ Taken /\ req'.method = "GET" /\ ~Authorised(req')
             => res'.status = 401 /\ ~signed' /\ handlerPc' = "idle"
        /\ Taken /\ Authorised(req')
             => \/ signed' /\ handlerPc' = "tickEnergon" /\ res' = NoRes
                \/ ~signed' /\ res'.status = 500
        /\ Answered
             => /\ res'.status \in {405, 401, 200, 500}
                /\ res'.status = 200
                     => /\ handlerPc = "energonHeight"
                        /\ DOMAIN res'.body
                             = {"ok", "tx", "blockNumber", "energonHeight"}
                        /\ res'.body.ok
                /\ res'.status = 500
                     => /\ DOMAIN res'.body = {"ok", "error"}
                        /\ ~res'.body.ok
        /\ handlerPc \in {"tickEnergon", "wait"} /\ handlerPc' = "idle"
             => res'.status = 500
       ]_vars

\* a GET with the configured secret was answered 200 after its tick
C19_Witness ==
  /\ res.status = 200
  /\ signed
  /\ req = [method |-> "GET", secret |-> processEnv.CRON_SECRET]

\* CRON_SECRET is not set and a GET without the header was answered 401
C19_WitnessUnset ==
  /\ processEnv.CRON_SECRET = Undefined
  /\ req = [method |-> "GET", secret |-> Undefined]
  /\ res.status = 401
  /\ ~signed

\* ------------------------------------------------- the handlers' failures
RejectedInto(by) ==
  \E msg \in Messages, code \in Codes :
    AwaitRejects(msg, code) /\ hfail'.by = by

C21_WitnessTick ==
  /\ hend = "returned"
  /\ hfail.op = "tickEnergon"
  /\ hpage.status = "user rejected the request"
  /\ ~hpage.busy

\* ------------------------------------------------ the token id autofill
TokenIdTyped == \E typed \in TypedInputs : TypeTokenId(typed)

\* C22: once the user edited the token id input in COHERENT (manualTouched
\* is true), no step but the user's own typing changes the input, whatever
\* it holds (empty included), and manualTouched stays true, until the reset
\* effect runs on disconnecting or leaving COHERENT; the reset empties the
\* input and sets manualTouched false; manualTouched becomes true only by
\* typing and false only by the reset.
C22_AutofillSparesTouchedInput ==
  /\ [][manualTouched /\ ~TokenIdTyped /\ ~ResetRuns
        => UNCHANGED <<manualTokenId, manualTouched>>]_vars
  /\ [][ResetRuns => manualTokenId' = << >> /\ ~manualTouched']_vars
  /\ [][~manualTouched /\ manualTouched' => TokenIdTyped]_vars
  /\ [][manualTouched /\ ~manualTouched'
        => ResetRuns /\ (~isConnected' \/ mode' # "COHERENT")]_vars
  /\ [][~manualTouched /\ ~manualTouched' /\ manualTokenId' # manualTokenId
        => \/ ResetRuns
           \/ /\ manualTokenId = << >>
              /\ manualTokenId' =
                   safeBigIntToString(tokenOfOwnerByIndex'.data)]_vars

\* the user emptied the input while the wallet's token id is known: the
\* input stays empty
C22_Witness ==
  /\ mode = "COHERENT"
  /\ manualTouched
  /\ manualTokenId = << >>
  /\ tokenOfOwnerByIndex.status = "success"
  /\ tokenOfOwnerByIndex.data # NULL

\* the autofill filled the input nobody typed in
C22_WitnessRefilled ==
  /\ mode = "COHERENT"
  /\ ~manualTouched
  /\ manualTokenId # << >>

C23_WitnessRemainder ==
  /\ plasmaCall.amount = 10
  /\ energon_plasma_last_ts_v1 = PLASMA_INTERVAL_MS \div 2

\* ------------------------------------------------------ overlapping polls
HeightReadDone(p, read) == PassRead(p, read) /\ p.st = "energonHeight"
SecondsReadDone(p, read) == PassRead(p, read) /\ p.st = "secondsUntilNext"

\* C24: the passes of the poll are independent.  As long as the interval
\* runs it can start a pass, whatever passes are still awaiting a read, and
\* the reads of any pass in flight can complete in any order; each displayed
\* field changes only when a read of that field completes, and then holds
\* what that read returned ("-" when it rejected), whichever pass it
\* belongs to.
C24_PollPassesIndependent ==
  /\ [](BagCardinality(passes) < MaxPolls => ENABLED StartPoll)
  /\ [][\A p \in BagToSet(passes) : \A read \in p.may \cup {"err"} :
          /\ HeightReadDone(p, read)
             => energonHeight' = (IF read = "err" THEN "-" ELSE read)
          /\ SecondsReadDone(p, read)
             => /\ secondsUntilNext' = (IF read = "err" THEN "-" ELSE read)
                /\ tickAllowed' = (read = "0")]_vars
  /\ [][energonHeight' # energonHeight
        => \E p \in BagToSet(passes) : \E read \in p.may \cup {"err"} :
             HeightReadDone(p, read)]_vars
  /\ [][<<secondsUntilNext', tickAllowed'>> # <<secondsUntilNext, tickAllowed>>
        => \E p \in BagToSet(passes) : \E read \in p.may \cup {"err"} :
             SecondsReadDone(p, read)]_vars

\* a pass started at height 0 still awaits its height read while the reads
\* of another pass completed and show height 1 and the seconds
C24_Witness ==
  /\ \E p \in BagToSet(passes) : p.st = "energonHeight" /\ "0" \in p.may
  /\ energonHeight = "1"
  /\ secondsUntilNext = "1"

\* a pass whose reads rejected left "-", and a later read overwrote it
C24_WitnessOverwritten ==
  /\ \E p \in BagToSet(passes) : p.st = "secondsUntilNext"
  /\ energonHeight = "-"
  /\ secondsUntilNext = "0"

\* ---------------------------------------------------- one tick in flight
\* every guard of manualTick and of the loop but isTicking is met
OnlyIsTickingRejects ==
  /\ hasEthereum /\ account # "" /\ chainOk /\ autoTickOn
  /\ cooldownLeft = 0 /\ ~isTickLocked /\ backoffRef = 0
  /\ tickAllowed
  /\ ~alreadyTickedThisHeight(energonHeight)

\* C25: in one tab at most one tick submission is in flight.  isTicking is
\* true exactly from the step that accepts a submission to the step its
\* finally block runs in, and while it is true manualTick returns without
\* accepting and no firing of the loop accepts, also once the lock and the
\* cooldown ran out and the displayed height changed.
C25_OneTickInFlight ==
  /\ [](isTicking <=> tickPc # "idle")
  /\ [](tickPc # "idle" => manualTickVerdict # "accept" /\ ~autoTickAccepts)
  /\ [][tickPc # "idle" /\ (ManualTick \/ AutoTickLoop)
        => UNCHANGED <<tickPc, tickBy, isTicking, energon_tick_lock_until,
                       cooldownLeft, lastTickHeightRef>>]_vars

\* the transaction is still pending after the lock and the cooldown ran out
\* and the display moved to a new height with its window open: isTicking
\* alone rejects
C25_Witness ==
  /\ tickPc = "wait"
  /\ OnlyIsTickingRejects
  /\ manualTickVerdict = "return"
  /\ ~autoTickAccepts
  /\ lastTickHeightRef # NULL

\* ------------------------------------------------------ the cross-tab lock
Begins(t) ==
  /\ \E by \in {"manual", "auto"}, backedOff \in BOOLEAN :
       TabTick(t, by, backedOff)
  /\ ~tabs[t].isTicking
  /\ tabs'[t].isTicking

C26_WitnessNextWindow ==
  /\ tabs["A"].isTicking
  /\ tabs["B"].isTicking
  /\ tabs["A"].cooldownLeft = 0
  /\ sinceBegun = 0

\* ------------------------------------------------- ticks at unknown height
\* C27: every accepted tick attempt is made at a known displayed height and
\* records it: after the accepting step lastTickHeightRef is not null and
\* equals the number displayed as energonHeight.
C27_AcceptedTickRecordsHeight ==
  [][TickAccepted
     => /\ parseHeight(energonHeight) # NULL
        /\ lastTickHeightRef' # NULL
        /\ lastTickHeightRef' = parseHeight(energonHeight)]_vars

\* what does hold: an attempt at a known height records that height, and an
\* attempt at an unknown height leaves the recorded height as it was
C27_KnownHeightRecorded ==
  [][TickAccepted
     => IF parseHeight(energonHeight) # NULL
          THEN lastTickHeightRef' = parseHeight(energonHeight)
        ELSE lastTickHeightRef' = lastTickHeightRef]_vars

\* a tick in flight that was accepted while the height read "-"
C27_SubmittedAtUnknownHeight ==
  /\ tickPc = "getSigner"
  /\ energonHeight = "-"
  /\ tickAllowed
  /\ lastTickHeightRef = NULL

\* ----------------------------------------- height and tickAllowed together
\* C28: the pair (energonHeight, tickAllowed) a guard evaluation uses comes
\* from one consistent read of the chain: an attempt is never accepted on a
\* tickAllowed = true that was read at an older height than the one
\* displayed.  The window of a height, once open, stays open until the
\* height advances; so whenever an attempt is accepted with the chain's
\* current height displayed, the window of that height is open.
C28_TickAllowedOfDisplayedHeight ==
  [][TickAccepted
     => ~(parseHeight(energonHeight) = chainHeight /\ chainSeconds # 0)]_vars

\* a tick in flight at the chain's current height, whose window never
\* opened: tickAllowed was read before the height advanced
C28_SubmittedOnStaleTickAllowed ==
  /\ tickPc = "getSigner"
  /\ parseHeight(energonHeight) = chainHeight
  /\ chainHeight > 0
  /\ lastTickHeightRef = chainHeight
  /\ chainSeconds # 0
  /\ passes # EmptyBag

\* ------------------------------------------------------ ticks and reloads
\* C29: across a reload of the tab the browser still never submits two
\* ticks at the same energonHeight: an attempt accepted by a page that has
\* recorded no height of its own (lastTickHeightRef is null, as a reload
\* leaves it) is made at a height at which no page of the tab attempted
\* before.
C29_NoSecondTickAfterReload ==
  [][TickAccepted /\ lastTickHeightRef = NULL
     => parseHeight(energonHeight) \notin attempted]_vars

\* what does hold: the reload puts lastTickHeightRef, cooldown and backoff
\* back to their initial values and leaves the stored lock and the stored
\* plasma as they are, and while the lock lasts the new page accepts
\* nothing
C29_ReloadKeepsLockAndPlasma ==
  /\ [][DashboardReload
        => /\ lastTickHeightRef' = NULL
           /\ cooldownLeft' = 0
           /\ backoffRef' = 0
           /\ ~isTicking'
           /\ UNCHANGED <<energon_tick_lock_until, plasmaStored>>
           /\ plasma' = loadPlasmaFromStorage]_vars
  /\ [][TickAccepted => ~isTickLocked]_vars

\* ------------------------------------------------------------- liveness
\* the wallet is connected on the expected chain, the toggle is on and the
\* chain reports the window of height h open
AutoPremise(h) ==
  /\ hasEthereum /\ account # "" /\ chainOk /\ autoTickOn
  /\ chainHeight = h
  /\ chainSeconds = 0

\* C30: if the wallet stays connected on the expected chain, the toggle
\* stays on and the chain keeps reporting seconds 0 at a height h the tab
\* has not attempted, then with its timers scheduled fairly the tab
\* eventually makes an attempt at h.
C30_EventuallyAttempts ==
  \A h \in Heights :
    (AutoPremise(h) /\ h \notin attempted)
      ~> (h \in attempted \/ ~AutoPremise(h))

\* the tab attempts at h whenever, besides, no tick of its own is in flight
\* again and again
C30_AttemptsUnlessTickHangs ==
  \A h \in Heights :
    (AutoPremise(h) /\ h \notin attempted)
      ~> (h \in attempted \/ ~AutoPremise(h) \/ [](tickPc # "idle"))

\* isTicking is false again in the step the catch or the last await of an
\* attempt is followed by the finally block
C30_SettledTickClearsIsTicking ==
  [][tickPc # "idle" /\ tickPc' = "idle" => isTicking /\ ~isTicking']_vars
====
